---- MODULE Spec2Model ----
(***************************************************************************)
(* PoseCamPC pipeline controller (src/core/controller.py) as a state       *)
(* machine.  Three execution contexts run the controller's code:           *)
(*   "rl"  the run-loop thread (PoseCamController.run),                    *)
(*   "fe"  the front end (ui/tk_gui.py callbacks, batch_tester.py),        *)
(*   "cl"  the command listener (core/osc_listener.py handlers).           *)
(* Every context has a program counter pc[c] and a stack of return labels  *)
(* stk[c]; a step executes the statements up to the next access of data    *)
(* another context can touch, so the interleavings of the Python threads   *)
(* are the behaviours of the specifications below.                         *)
(*                                                                         *)
(* Endpoint settings (ndi_name, osc_ip, osc_port, osc_listen_port) and     *)
(* fps_limit only parameterise the external sinks and the pacing sleep;    *)
(* they are not part of config here.                                       *)
(***************************************************************************)
EXTENDS Integers, Sequences, FiniteSets, TLC

\* ---------------------------------------------------------------- bounds
\* frames per run where few commands are issued / where three are
MaxFrames == 3
MaxCtlFrames == 2
\* commands issued in a behaviour
MaxCmds == 3
\* pause() calls in a row where they are recorded
MaxPauses == 3
\* frames of the playable file
MaxFileLen == 2

\* ------------------------------------------------------ program constants
PreviewMaxSize == 2

\* ------------------------------------------------------------ value sets
None == "None"

AppState == {"INIT", "READY", "RUNNING", "PAUSED", "STOPPED"}

Models == {"mediapipe", "yolo"}

DefaultModel == "mediapipe"

\* "clipA" is a playable file of file_len frames, "clipB" a file the capture
\* backend cannot open.
VideoFiles == {"clipA", "clipB"}

\* camera 0 is present and delivers frames, camera 1 is absent.
CameraIds == {0, 1}

FrameTimes == {1, 2}

Ctx == {"rl", "fe", "cl"}

CmdCtx == {"fe", "cl"}

VARIABLES
    state,               \* self.state
    config,              \* self.config
    cfg_seen,            \* history: the source settings self.config has held since
                         \* the run-loop read the input kind for the open in progress
    pose_detector,       \* self.pose_detector: the model the instance was built from
    video_width,         \* self.video_width
    video_height,        \* self.video_height
    video_capture,       \* self.video_capture: None or the capture object
    osc_client,          \* self.osc_client
    osc_active,          \* self.osc_active
    ndi_sender,          \* self.ndi_sender: None, "live", or "destroyed"
    ndi_active,          \* self.ndi_active
    ndi_initialized,     \* self.ndi_initialized
    ndi_sent,            \* number of the frame last handed to the video sender (0: none)
    osc_sent,            \* frame count of the bundle last sent by the OSC client (0: none)
    frame_count,         \* self.frame_count
    thread_should_stop,  \* self._thread_should_stop
    preview_frame_queue, \* self.preview_frame_queue
    model_perf_stats,    \* self.model_perf_stats
    perf_log_file,       \* self.perf_log_file (FALSE: logging disabled)
    last_row,            \* the row most recently appended to the performance log
    gui,                 \* self.gui is attached
    gui_state,           \* the state last shown by update_ui_state
    gui_selected,        \* PoseCamGUI.selected_detector
    gui_osc,             \* the activation last shown by update_osc_state
    gui_ndi,             \* the activation last shown by update_ndi_state
    gui_preview,         \* the frame last taken from the relay by the front end
    file_len,            \* number of frames of "clipA"
    frame_cap,           \* the run-loop captures no frame beyond this count (a bound)
    pc,                  \* per context: the statement it is at
    stk,                 \* per context: the return labels of the calls in progress
    arg,                 \* per context: the arguments of the calls in progress
    rl,                  \* the run-loop's local variables
    cmds,                \* number of commands issued so far
    cap_stale,           \* history: a start() followed a stop while this capture was held
    fresh_start,         \* history: the contexts whose start() has reset the counter and
                         \* not yet set RUNNING, and "due" once a start() has set RUNNING
                         \* and no frame has been numbered since
    pause_from,          \* history: the states found by the front end's consecutive
                         \* pause() calls, as far as InvokePause records them, since
                         \* the last other call and the last assignment of the state
                         \* by another context
    run_sinks,           \* history: both sinks were running when start() last set
                         \* RUNNING, and the state has been RUNNING or PAUSED since
    since                \* history: per model, the frame times recorded since its last event

cfgVars == <<config, pose_detector, cfg_seen>>

capVars == <<video_width, video_height, video_capture>>

oscVars == <<osc_client, osc_active, osc_sent>>

ndiVars == <<ndi_sender, ndi_active, ndi_initialized, ndi_sent>>

perfVars == <<model_perf_stats, last_row, since>>

guiVars == <<gui, gui_state, gui_selected, gui_osc, gui_ndi>>

\* fixed after construction (perf_log_file, file_len, frame_cap) or changed
\* only by the preview consumer (gui_preview)
restVars == <<perf_log_file, file_len, frame_cap, gui_preview>>

vars == <<state, config, cfg_seen, pose_detector, video_width, video_height, video_capture,
          osc_client, osc_active, osc_sent, ndi_sender, ndi_active, ndi_initialized, ndi_sent,
          frame_count, thread_should_stop, preview_frame_queue, model_perf_stats,
          perf_log_file, last_row, gui, gui_state, gui_selected, gui_osc, gui_ndi,
          gui_preview, file_len, frame_cap, pc, stk, arg, rl, cmds, cap_stale, fresh_start,
          pause_from, run_sinks, since>>

\* ------------------------------------------------------------- helpers
NoArg == [ns |-> None, key |-> None, val |-> None, model |-> None, pm |-> None]

NoFrame == [n |-> 0, ov |-> 0]

NewStats == [present |-> TRUE, total_time |-> 0, frame_count |-> 0]

NoStats == [present |-> FALSE, total_time |-> 0, frame_count |-> 0]

\* The fields of self.config that select the source (run, lines 421-425).
SourceSetting(cfg) == [input |-> cfg.input, video_file |-> cfg.video_file,
                       camera_id |-> cfg.camera_id]

\* self.video_capture = None
NoCapture == [exists |-> FALSE, opened |-> FALSE, kind |-> None, path |-> None,
              cam |-> 0, pos |-> 0, rewinds |-> 0]

\* source: the input kind read at line 421; frame: the captured frame (n: its
\* number, ov: overlays drawn on it); pov: overlays drawn on the preview copy;
\* tmp: the counter value read by "frame_count += 1"; det: the detector instance
\* that processed the frame; model: model_name of _log_perf_frame;
\* holds/live/orphan: the stats dictionary _log_perf_frame holds a reference to
\* (live: it is still the one stored in model_perf_stats; otherwise orphan is it);
\* t: the measured processing time; client, cnt: the arguments client and
\* frame_count of send_landmarks_via_osc.
RlInit == [source |-> None, frame |-> NoFrame, pov |-> 0, tmp |-> 0, det |-> None,
           model |-> None, holds |-> FALSE, live |-> TRUE, orphan |-> NewStats, t |-> 0,
           client |-> None, cnt |-> 0]

NoRow == [kind |-> "header"]

Goto(c, l) == pc' = [pc EXCEPT ![c] = l]

Call(c, entry, ret) ==
    /\ pc' = [pc EXCEPT ![c] = entry]
    /\ stk' = [stk EXCEPT ![c] = <<ret>> \o @]

Return(c) ==
    /\ pc' = [pc EXCEPT ![c] = Head(stk[c])]
    /\ stk' = [stk EXCEPT ![c] = Tail(@)]

\* ---------------------------------------------------------------- Init
\* PoseCamController.__init__: the state after construction.  The default video
\* is the first file of ./videoSamples or None; creating the performance log
\* may fail, which disables logging.  The run-loop thread is about to execute
\* run()'s first statement, update_state(READY) (line 413).
Init ==
    /\ state = "INIT"
    /\ \E vf \in {None, "clipA"} :
          config = [input |-> "file", loop_video |-> TRUE, draw_ndi_overlay |-> TRUE,
                    video_file |-> vf, camera_id |-> 0, detector_model |-> DefaultModel]
    /\ cfg_seen = {SourceSetting(config)}
    /\ pose_detector = DefaultModel
    /\ video_width = 0
    /\ video_height = 0
    /\ video_capture = NoCapture
    /\ osc_client = None
    /\ osc_active = FALSE
    /\ osc_sent = 0
    /\ ndi_sender = None
    /\ ndi_active = FALSE
    /\ ndi_initialized = FALSE
    /\ ndi_sent = 0
    /\ frame_count = 0
    /\ thread_should_stop = FALSE
    /\ preview_frame_queue = << >>
    /\ model_perf_stats = [m \in Models |-> NoStats]
    /\ perf_log_file \in BOOLEAN
    /\ last_row = NoRow
    /\ gui = FALSE
    /\ gui_state = None
    /\ gui_selected = None
    /\ gui_osc = FALSE
    /\ gui_ndi = FALSE
    /\ gui_preview = NoFrame
    /\ file_len \in 0..MaxFileLen
    /\ frame_cap \in {MaxCtlFrames, MaxFrames}
    /\ pc = [c \in Ctx |-> IF c = "rl" THEN "us_assign" ELSE "idle"]
    /\ stk = [c \in Ctx |-> IF c = "rl" THEN <<"loop">> ELSE << >>]
    /\ arg = [c \in Ctx |-> IF c = "rl" THEN [NoArg EXCEPT !.ns = "READY"] ELSE NoArg]
    /\ rl = RlInit
    /\ cmds = 0
    /\ cap_stale = FALSE
    /\ fresh_start = {}
    /\ pause_from = << >>
    /\ run_sinks = FALSE
    /\ since = [m \in Models |-> NewStats]

\* ------------------------------------------------- controller operations
\* update_state, line 169: self.state = new_state.  cap_stale records that the
\* state went STOPPED -> RUNNING while a capture object was still held;
\* fresh_start that this assignment is the one of a start(), run_sinks
\* whether both sinks are running at that assignment.
US_assign(c) ==
    /\ pc[c] = "us_assign"
    /\ state' = arg[c].ns
    /\ cap_stale' = IF arg[c].ns = "RUNNING" /\ state = "STOPPED" /\ video_capture.exists
                    THEN TRUE ELSE cap_stale
    /\ fresh_start' = IF c \in fresh_start THEN (fresh_start \ {c}) \cup {"due"}
                      ELSE fresh_start
    /\ pause_from' = IF c = "fe" THEN pause_from ELSE << >>
    /\ run_sinks' = IF arg[c].ns = "RUNNING" /\ c \in fresh_start
                    THEN osc_client # None /\ osc_active /\ ndi_sender = "live" /\ ndi_active
                    ELSE arg[c].ns \in {"RUNNING", "PAUSED"} /\ run_sinks
    /\ Goto(c, "us_notify")
    /\ UNCHANGED <<frame_count, thread_should_stop, cfgVars, capVars, oscVars, ndiVars,
                   preview_frame_queue, perfVars, guiVars, restVars, stk, arg, rl, cmds>>

\* A variant that reports the state field as it is read at notification time.
NotifiedState_Current(new_state, cur) == cur

\* update_state, line 171: the value handed to update_ui_state is the
\* parameter new_state, not a second read of self.state.
NotifiedState(new_state, cur) == new_state

\* update_state, lines 170-171: if self.gui: self.gui.update_ui_state(new_state)
US_notify(c) ==
    /\ pc[c] = "us_notify"
    /\ gui_state' = IF gui THEN NotifiedState(arg[c].ns, state) ELSE gui_state
    /\ arg' = [arg EXCEPT ![c].ns = None]
    /\ Return(c)
    /\ UNCHANGED <<state, frame_count, thread_should_stop, cfgVars, capVars, oscVars,
                   ndiVars, preview_frame_queue, perfVars, gui, gui_selected, gui_osc,
                   gui_ndi, restVars, rl, cmds, cap_stale, fresh_start, pause_from, run_sinks>>

\* A guard that would make start() return in PAUSED as well.
StartGuard_AlsoPaused(s) == s \in {"RUNNING", "PAUSED"}

\* start, lines 292-294: the guard.
StartGuard(s) == s = "RUNNING"

\* start, lines 292-294
Start_guard(c) ==
    /\ pc[c] = "start"
    /\ IF StartGuard(state) THEN Return(c) ELSE Goto(c, "start_reset") /\ UNCHANGED stk
    /\ UNCHANGED <<state, frame_count, thread_should_stop, cfgVars, capVars, oscVars,
                   ndiVars, preview_frame_queue, perfVars, guiVars, restVars, arg, rl,
                   cmds, cap_stale, fresh_start, pause_from, run_sinks>>

\* A variant in which start() creates the capture object itself.
CaptureAfterStart_Opened(cap) == [cap EXCEPT !.exists = TRUE]

\* start, line 296: "Simply update the state. The run() loop will handle
\* resource creation": start() leaves self.video_capture as it is.
CaptureAfterStart(cap) == cap

\* start, lines 297-298: self.frame_count = 0, then update_state(RUNNING)
Start_reset(c) ==
    /\ pc[c] = "start_reset"
    /\ frame_count' = 0
    /\ fresh_start' = fresh_start \cup {c}
    /\ video_capture' = CaptureAfterStart(video_capture)
    /\ arg' = [arg EXCEPT ![c].ns = "RUNNING"]
    /\ Goto(c, "us_assign")
    /\ UNCHANGED <<state, thread_should_stop, cfgVars, video_width, video_height, oscVars, ndiVars,
                   preview_frame_queue, perfVars, guiVars, restVars, stk, rl, cmds,
                   cap_stale, pause_from, run_sinks>>

\* A guard that would make stop_video_stream() return in RUNNING as well.
StopVideoGuard_AlsoRunning(s) == s \in {"STOPPED", "READY", "RUNNING"}

\* stop_video_stream, lines 311-313: the guard.
StopVideoGuard(s) == s \in {"STOPPED", "READY"}

\* stop_video_stream, lines 311-315
StopVideo(c) ==
    /\ pc[c] = "stop_video"
    /\ IF StopVideoGuard(state)
       THEN Return(c) /\ UNCHANGED arg
       ELSE /\ arg' = [arg EXCEPT ![c].ns = "STOPPED"]
            /\ Goto(c, "us_assign")
            /\ UNCHANGED stk
    /\ UNCHANGED <<state, frame_count, thread_should_stop, cfgVars, capVars, oscVars,
                   ndiVars, preview_frame_queue, perfVars, guiVars, restVars, rl, cmds,
                   cap_stale, fresh_start, pause_from, run_sinks>>

\* stop, lines 303-307: update_state(STOPPED); stop_osc(); stop_ndi(), as the
\* labels a caller pushes in front of its own continuation.
StopBody == <<"so_client", "sn_destroy">>

\* stop_osc, lines 333-334: if self.osc_client: self.osc_client = None
StopOsc_client(c) ==
    /\ pc[c] = "so_client"
    /\ osc_client' = None
    /\ Goto(c, "so_active")
    /\ UNCHANGED <<state, frame_count, thread_should_stop, cfgVars, capVars, osc_active,
                   osc_sent, ndiVars, preview_frame_queue, perfVars, guiVars, restVars, stk, arg,
                   rl, cmds, cap_stale, fresh_start, pause_from, run_sinks>>

\* stop_osc, line 336: self.osc_active = False
StopOsc_active(c) ==
    /\ pc[c] = "so_active"
    /\ osc_active' = FALSE
    /\ Goto(c, "so_notify")
    /\ UNCHANGED <<state, frame_count, thread_should_stop, cfgVars, capVars, osc_client,
                   osc_sent, ndiVars, preview_frame_queue, perfVars, guiVars, restVars, stk, arg,
                   rl, cmds, cap_stale, fresh_start, pause_from, run_sinks>>

\* start_osc line 329-330 and stop_osc lines 337-338:
\* if self.gui: self.gui.update_osc_state(self.osc_active)
Osc_notify(c) ==
    /\ pc[c] = "so_notify"
    /\ gui_osc' = IF gui THEN osc_active ELSE gui_osc
    /\ Return(c)
    /\ UNCHANGED <<state, frame_count, thread_should_stop, cfgVars, capVars, oscVars,
                   ndiVars, preview_frame_queue, perfVars, gui, gui_state, gui_selected,
                   gui_ndi, restVars, arg, rl, cmds, cap_stale, fresh_start, pause_from, run_sinks>>

\* stop_ndi, lines 366-367: if self.ndi_sender: ndi.send_destroy(self.ndi_sender)
StopNdi_destroy(c) ==
    /\ pc[c] = "sn_destroy"
    /\ IF ndi_sender # None
       THEN ndi_sender' = "destroyed" /\ Goto(c, "sn_clear")
       ELSE UNCHANGED ndi_sender /\ Goto(c, "sn_active")
    /\ UNCHANGED <<state, frame_count, thread_should_stop, cfgVars, capVars, oscVars,
                   ndi_active, ndi_initialized, ndi_sent, preview_frame_queue, perfVars,
                   guiVars, restVars, stk, arg, rl, cmds, cap_stale, fresh_start, pause_from, run_sinks>>

\* stop_ndi, lines 368-370: self.ndi_sender = None when the branch of line 366
\* was taken ("sn_clear"); self.ndi_active = False in both cases
StopNdi_clear(c) ==
    /\ pc[c] \in {"sn_clear", "sn_active"}
    /\ ndi_sender' = IF pc[c] = "sn_clear" THEN None ELSE ndi_sender
    /\ ndi_active' = FALSE
    /\ Goto(c, "sn_notify")
    /\ UNCHANGED <<state, frame_count, thread_should_stop, cfgVars, capVars, oscVars,
                   ndi_initialized, ndi_sent, preview_frame_queue, perfVars, guiVars,
                   restVars, stk, arg, rl, cmds, cap_stale, fresh_start, pause_from, run_sinks>>

\* start_ndi lines 362-363 and stop_ndi lines 371-372:
\* if self.gui: self.gui.update_ndi_state(self.ndi_active)
Ndi_notify(c) ==
    /\ pc[c] = "sn_notify"
    /\ gui_ndi' = IF gui THEN ndi_active ELSE gui_ndi
    /\ Return(c)
    /\ UNCHANGED <<state, frame_count, thread_should_stop, cfgVars, capVars, oscVars,
                   ndiVars, preview_frame_queue, perfVars, gui, gui_state, gui_selected,
                   gui_osc, restVars, arg, rl, cmds, cap_stale, fresh_start, pause_from, run_sinks>>

\* start_osc, lines 318-320: if self.osc_client: return
StartOsc_check(c) ==
    /\ pc[c] = "sto_check"
    /\ IF osc_client # None THEN Return(c) ELSE Goto(c, "sto_create") /\ UNCHANGED stk
    /\ UNCHANGED <<state, frame_count, thread_should_stop, cfgVars, capVars, oscVars,
                   ndiVars, preview_frame_queue, perfVars, guiVars, restVars, arg, rl,
                   cmds, cap_stale, fresh_start, pause_from, run_sinks>>

\* start_osc, lines 321-328: SimpleUDPClient(...) returns a client, or raises and
\* the handler clears client and activation.
StartOsc_create(c) ==
    /\ pc[c] = "sto_create"
    /\ \E ok \in BOOLEAN :
         IF ok
         THEN osc_client' = "client" /\ UNCHANGED osc_active /\ Goto(c, "sto_active")
         ELSE osc_client' = None /\ osc_active' = FALSE /\ Goto(c, "so_notify")
    /\ UNCHANGED <<state, frame_count, thread_should_stop, cfgVars, capVars, osc_sent,
                   ndiVars, preview_frame_queue, perfVars, guiVars, restVars, stk, arg,
                   rl, cmds, cap_stale, fresh_start, pause_from, run_sinks>>

\* start_osc, line 324: self.osc_active = True
StartOsc_active(c) ==
    /\ pc[c] = "sto_active"
    /\ osc_active' = TRUE
    /\ Goto(c, "so_notify")
    /\ UNCHANGED <<state, frame_count, thread_should_stop, cfgVars, capVars, osc_client,
                   osc_sent, ndiVars, preview_frame_queue, perfVars, guiVars, restVars, stk, arg,
                   rl, cmds, cap_stale, fresh_start, pause_from, run_sinks>>

\* A variant that never finds the sender running.
NdiRunning_Never(sender) == FALSE

\* start_ndi, line 341: if self.ndi_sender
NdiRunning(sender) == sender # None

\* start_ndi, lines 341-343: if self.ndi_sender: return
StartNdi_check(c) ==
    /\ pc[c] = "stn_check"
    /\ IF NdiRunning(ndi_sender) THEN Return(c) ELSE Goto(c, "stn_create") /\ UNCHANGED stk
    /\ UNCHANGED <<state, frame_count, thread_should_stop, cfgVars, capVars, oscVars,
                   ndiVars, preview_frame_queue, perfVars, guiVars, restVars, arg, rl,
                   cmds, cap_stale, fresh_start, pause_from, run_sinks>>

\* start_ndi, lines 344-361: ndi.initialize() (once) and ndi.send_create(); either
\* may fail, and the handler then clears sender and activation.
StartNdi_create(c) ==
    /\ pc[c] = "stn_create"
    /\ \E ok \in BOOLEAN :
         IF ok
         THEN /\ ndi_initialized' = TRUE
              /\ ndi_sender' = "live"
              /\ UNCHANGED ndi_active
              /\ Goto(c, "stn_active")
         ELSE /\ ndi_initialized' \in {ndi_initialized, TRUE}
              /\ ndi_sender' = None
              /\ ndi_active' = FALSE
              /\ Goto(c, "sn_notify")
    /\ UNCHANGED <<state, frame_count, thread_should_stop, cfgVars, capVars, oscVars,
                   ndi_sent, preview_frame_queue, perfVars, guiVars, restVars, stk, arg,
                   rl, cmds, cap_stale, fresh_start, pause_from, run_sinks>>

\* start_ndi, line 357: self.ndi_active = True
StartNdi_active(c) ==
    /\ pc[c] = "stn_active"
    /\ ndi_active' = TRUE
    /\ Goto(c, "sn_notify")
    /\ UNCHANGED <<state, frame_count, thread_should_stop, cfgVars, capVars, oscVars,
                   ndi_sender, ndi_initialized, ndi_sent, preview_frame_queue, perfVars,
                   guiVars, restVars, stk, arg, rl, cmds, cap_stale, fresh_start, pause_from, run_sinks>>

\* A pause() that would not resume.
PauseToggle_NoResume(s) == IF s = "RUNNING" THEN "PAUSED" ELSE s

\* pause, lines 375-378: the state pause() passes to update_state for the state
\* its test found (none is passed where the result is that state).
PauseToggle(s) == IF s = "RUNNING" THEN "PAUSED"
                  ELSE IF s = "PAUSED" THEN "RUNNING"
                  ELSE s

\* pause, line 375: if self.state == AppState.RUNNING: update_state(PAUSED)
Pause_first(c) ==
    /\ pc[c] = "pause"
    /\ IF state = "RUNNING"
       THEN arg' = [arg EXCEPT ![c].ns = PauseToggle(state)] /\ Goto(c, "us_assign")
       ELSE UNCHANGED arg /\ Goto(c, "pause_elif")
    /\ UNCHANGED <<state, frame_count, thread_should_stop, cfgVars, capVars, oscVars,
                   ndiVars, preview_frame_queue, perfVars, guiVars, restVars, stk, rl,
                   cmds, cap_stale, fresh_start, pause_from, run_sinks>>

\* pause, line 377: elif self.state == AppState.PAUSED: update_state(RUNNING)
Pause_elif(c) ==
    /\ pc[c] = "pause_elif"
    /\ IF state = "PAUSED"
       THEN arg' = [arg EXCEPT ![c].ns = PauseToggle(state)] /\ Goto(c, "us_assign") /\ UNCHANGED stk
       ELSE UNCHANGED arg /\ Return(c)
    /\ UNCHANGED <<state, frame_count, thread_should_stop, cfgVars, capVars, oscVars,
                   ndiVars, preview_frame_queue, perfVars, guiVars, restVars, rl, cmds,
                   cap_stale, fresh_start, pause_from, run_sinks>>

\* shutdown, lines 383-384: self._thread_should_stop.set(); self.stop()
Shutdown_set(c) ==
    /\ pc[c] = "shutdown"
    /\ thread_should_stop' = TRUE
    /\ arg' = [arg EXCEPT ![c].ns = "STOPPED"]
    /\ pc' = [pc EXCEPT ![c] = "us_assign"]
    /\ stk' = [stk EXCEPT ![c] = StopBody \o <<"sd_ndi">> \o @]
    /\ UNCHANGED <<state, frame_count, cfgVars, capVars, oscVars, ndiVars,
                   preview_frame_queue, perfVars, guiVars, restVars, rl, cmds, cap_stale, fresh_start, pause_from, run_sinks>>

\* shutdown, lines 386-392: the listener's server is shut down and, if the NDI
\* library was initialised, it is destroyed.  The front end then closes.
Shutdown_ndi(c) ==
    /\ pc[c] = "sd_ndi"
    /\ ndi_initialized' = FALSE
    /\ pc' = [pc EXCEPT ![c] = "closed"]
    /\ stk' = [stk EXCEPT ![c] = << >>]
    /\ UNCHANGED <<state, frame_count, thread_should_stop, cfgVars, capVars, oscVars,
                   ndi_sender, ndi_active, ndi_sent, preview_frame_queue, perfVars,
                   guiVars, restVars, arg, rl, cmds, cap_stale, fresh_start, pause_from, run_sinks>>

\* update_config, lines 175-178: self.config[key] = value (int() of a camera id
\* that is already an integer is that integer).  cfg_seen records the new
\* source setting, in addition to the earlier ones while an open is in progress.
UpdateConfig_set(c) ==
    /\ pc[c] = "uc_set"
    /\ config' = [config EXCEPT ![arg[c].key] = arg[c].val]
    /\ cfg_seen' = IF pc["rl"] = "open_device"
                   THEN cfg_seen \cup {SourceSetting(config')}
                   ELSE {SourceSetting(config')}
    /\ Goto(c, "uc_notify")
    /\ UNCHANGED <<state, frame_count, thread_should_stop, pose_detector, capVars,
                   oscVars, ndiVars, preview_frame_queue, perfVars, guiVars, restVars,
                   stk, arg, rl, cmds, cap_stale, fresh_start, pause_from, run_sinks>>

\* update_config, lines 180-185: the front end mirrors the value
\* (update_ui_config, tk_gui.py 304-314; of the mirrored widgets only
\* selected_detector is kept here); a change of the overlay flag is logged as a
\* performance event.
UpdateConfig_notify(c) ==
    /\ pc[c] = "uc_notify"
    /\ gui_selected' = IF gui /\ arg[c].key = "detector_model" THEN arg[c].val
                       ELSE gui_selected
    /\ arg' = [arg EXCEPT ![c].key = None, ![c].val = None]
    /\ IF arg[c].key = "draw_ndi_overlay"
       THEN Goto(c, "pe_model") /\ UNCHANGED stk
       ELSE Return(c)
    /\ UNCHANGED <<state, frame_count, thread_should_stop, cfgVars, capVars, oscVars,
                   ndiVars, preview_frame_queue, perfVars, gui, gui_state, gui_osc,
                   gui_ndi, restVars, rl, cmds, cap_stale, fresh_start, pause_from, run_sinks>>

\* A test that never finds logging disabled.
LogDisabled_Never(f) == FALSE

\* _log_perf_event, line 189, and _log_perf_frame, line 227:
\* if not self.perf_log_file (None after a failed creation, lines 70-72)
LogDisabled(f) == ~f

\* _log_perf_event, lines 189-192: return if logging is disabled;
\* model_name = self.config['detector_model']
PerfEvent_model(c) ==
    /\ pc[c] = "pe_model"
    /\ IF ~LogDisabled(perf_log_file)
       THEN /\ arg' = [arg EXCEPT ![c].pm = config.detector_model]
            /\ Goto(c, "pe_reset")
            /\ UNCHANGED stk
       ELSE UNCHANGED arg /\ Return(c)
    /\ UNCHANGED <<state, frame_count, thread_should_stop, cfgVars, capVars, oscVars,
                   ndiVars, preview_frame_queue, perfVars, guiVars, restVars, rl, cmds,
                   cap_stale, fresh_start, pause_from, run_sinks>>

\* _log_perf_event, line 195: the accumulator of the model is replaced.
ResetStats(stats, m) == [stats EXCEPT ![m] = NewStats]

\* _log_perf_event, line 195: self.model_perf_stats[model_name] = {...}.  A
\* dictionary _log_perf_frame already holds (line 244) is no longer the stored
\* one afterwards.
PerfEvent_reset(c) ==
    /\ pc[c] = "pe_reset"
    /\ model_perf_stats' = ResetStats(model_perf_stats, arg[c].pm)
    /\ since' = [since EXCEPT ![arg[c].pm] = NewStats]
    /\ rl' = IF rl.holds /\ rl.live /\ rl.model = arg[c].pm
             THEN [rl EXCEPT !.live = FALSE, !.orphan = model_perf_stats[arg[c].pm]]
             ELSE rl
    /\ Goto(c, "pe_row")
    /\ UNCHANGED <<state, frame_count, thread_should_stop, cfgVars, capVars, oscVars,
                   ndiVars, preview_frame_queue, last_row, guiVars, restVars, stk, arg,
                   cmds, cap_stale, fresh_start, pause_from, run_sinks>>

\* _log_perf_event, lines 199-223: no row while the resolution is unknown,
\* otherwise the event row is appended.
PerfEvent_row(c) ==
    /\ pc[c] = "pe_row"
    /\ last_row' = IF video_width = 0 THEN last_row
                   ELSE [kind |-> "event", model |-> arg[c].pm,
                         overlay |-> config.draw_ndi_overlay]
    /\ arg' = [arg EXCEPT ![c].pm = None]
    /\ Return(c)
    /\ UNCHANGED <<state, frame_count, thread_should_stop, cfgVars, capVars, oscVars,
                   ndiVars, preview_frame_queue, model_perf_stats, since, guiVars,
                   restVars, rl, cmds, cap_stale, fresh_start, pause_from, run_sinks>>

\* A guard that would accept a detector change in PAUSED as well.
SwapAllowed_AlsoPaused(s) == s \in {"STOPPED", "READY", "PAUSED"}

\* change_detector_model, line 263: the state guard.
SwapAllowed(s) == s \in {"STOPPED", "READY"}

\* change_detector_model, lines 263-264
ChangeDetector_guard(c) ==
    /\ pc[c] = "cdm"
    /\ IF SwapAllowed(state) THEN Goto(c, "cdm_same") ELSE Goto(c, "cdm_revert")
    /\ UNCHANGED <<state, frame_count, thread_should_stop, cfgVars, capVars, oscVars,
                   ndiVars, preview_frame_queue, perfVars, guiVars, restVars, stk, arg,
                   rl, cmds, cap_stale, fresh_start, pause_from, run_sinks>>

\* change_detector_model, lines 265-268: the front end's selection is set back
\* to the configured model.
ChangeDetector_revert(c) ==
    /\ pc[c] = "cdm_revert"
    /\ gui_selected' = IF gui THEN config.detector_model ELSE gui_selected
    /\ arg' = [arg EXCEPT ![c].model = None]
    /\ Return(c)
    /\ UNCHANGED <<state, frame_count, thread_should_stop, cfgVars, capVars, oscVars,
                   ndiVars, preview_frame_queue, perfVars, gui, gui_state, gui_osc,
                   gui_ndi, restVars, rl, cmds, cap_stale, fresh_start, pause_from, run_sinks>>

\* change_detector_model, lines 270-278: nothing to do for the configured model;
\* otherwise update_config('detector_model', model_name), then _log_perf_event(),
\* then _initialize_detector() (lines 275-280).
ChangeDetector_same(c) ==
    /\ pc[c] = "cdm_same"
    /\ IF arg[c].model = config.detector_model
       THEN /\ arg' = [arg EXCEPT ![c].model = None]
            /\ Return(c)
       ELSE /\ arg' = [arg EXCEPT ![c].key = "detector_model", ![c].val = arg[c].model,
                                  ![c].model = None]
            /\ pc' = [pc EXCEPT ![c] = "uc_set"]
            /\ stk' = [stk EXCEPT ![c] = <<"pe_model", "init_detector">> \o @]
    /\ UNCHANGED <<state, frame_count, thread_should_stop, cfgVars, capVars, oscVars,
                   ndiVars, preview_frame_queue, perfVars, guiVars, restVars, rl, cmds,
                   cap_stale, fresh_start, pause_from, run_sinks>>

\* _initialize_detector, lines 151-165 (and line 282): the configured backend is
\* instantiated; if its constructor raises, the exception leaves
\* change_detector_model and the old instance stays.
InitializeDetector(c) ==
    /\ pc[c] = "init_detector"
    /\ \E ok \in BOOLEAN :
         IF ok
         THEN pose_detector' = config.detector_model /\ Return(c)
         ELSE /\ UNCHANGED pose_detector
              /\ pc' = [pc EXCEPT ![c] = "idle"]
              /\ stk' = [stk EXCEPT ![c] = << >>]
    /\ UNCHANGED <<state, frame_count, thread_should_stop, config, cfg_seen, capVars, oscVars,
                   ndiVars, preview_frame_queue, perfVars, guiVars, restVars, arg, rl,
                   cmds, cap_stale, fresh_start, pause_from, run_sinks>>

\* start_all, lines 287-289: start_ndi(); start_osc(); start(), as the labels a
\* caller pushes.
StartAllBody == <<"sto_check", "start">>

\* ------------------------------------------------------------ run-loop
\* run, lines 415-416 and 419: the loop condition, the test for RUNNING and
\* the test for an existing capture object (one iteration starts here, after
\* the pacing or idle sleep of the previous one).
Run_loop ==
    /\ pc["rl"] = "loop"
    /\ IF thread_should_stop THEN Goto("rl", "exited")
       ELSE IF state = "RUNNING"
            THEN IF video_capture.exists THEN Goto("rl", "capture")
                 ELSE Goto("rl", "open_input")
            ELSE Goto("rl", "check_paused")
    /\ UNCHANGED <<state, frame_count, thread_should_stop, cfgVars, capVars, oscVars,
                   ndiVars, preview_frame_queue, perfVars, guiVars, restVars, stk, arg,
                   rl, cmds, cap_stale, fresh_start, pause_from, run_sinks>>

\* A test that never takes the paused branch.
IsPaused_Never(s) == FALSE

\* run, line 502: elif self.state == AppState.PAUSED
IsPaused(s) == s = "PAUSED"

\* run, lines 502-503: elif self.state == AppState.PAUSED: sleep
Run_check_paused ==
    /\ pc["rl"] = "check_paused"
    /\ IF IsPaused(state) THEN Goto("rl", "loop") ELSE Goto("rl", "idle_release")
    /\ UNCHANGED <<state, frame_count, thread_should_stop, cfgVars, capVars, oscVars,
                   ndiVars, preview_frame_queue, perfVars, guiVars, restVars, stk, arg,
                   rl, cmds, cap_stale, fresh_start, pause_from, run_sinks>>

\* A release branch that would keep the capture object.
ReleaseCapture_Keep(cap) == cap

\* run, lines 506-511: the capture object left after the release branch.
ReleaseCapture(cap) == NoCapture

\* run, lines 506-509: if self.video_capture: release it and set
\* self.video_capture = None.
Run_idle_release ==
    /\ pc["rl"] = "idle_release"
    /\ IF video_capture.exists
       THEN /\ video_capture' = ReleaseCapture(video_capture)
            /\ cap_stale' = FALSE
            /\ Goto("rl", "idle_reset")
       ELSE /\ UNCHANGED <<video_capture, cap_stale>>
            /\ Goto("rl", "idle_sleep")
    /\ UNCHANGED <<state, frame_count, thread_should_stop, cfgVars, video_width,
                   video_height, oscVars, ndiVars, preview_frame_queue, perfVars, guiVars,
                   restVars, stk, arg, rl, cmds, fresh_start, pause_from, run_sinks>>

\* A reset that would leave the recorded resolution as it is.
ResetResolution_Keep(w) == w

\* run, lines 510-511: self.video_width = 0; self.video_height = 0
ResetResolution(w) == 0

\* run, lines 510-513: the recorded resolution is reset after the capture
\* object is gone.
Run_idle_reset ==
    /\ pc["rl"] = "idle_reset"
    /\ video_width' = ResetResolution(video_width)
    /\ video_height' = ResetResolution(video_height)
    /\ Goto("rl", "idle_sleep")
    /\ UNCHANGED <<state, frame_count, thread_should_stop, cfgVars, video_capture, oscVars,
                   ndiVars, preview_frame_queue, perfVars, guiVars, restVars, stk, arg,
                   rl, cmds, cap_stale, fresh_start, pause_from, run_sinks>>

\* run, line 515: time.sleep(0.05)
Run_idle_sleep ==
    /\ pc["rl"] = "idle_sleep"
    /\ Goto("rl", "loop")
    /\ UNCHANGED <<state, frame_count, thread_should_stop, cfgVars, capVars, oscVars,
                   ndiVars, preview_frame_queue, perfVars, guiVars, restVars, stk, arg,
                   rl, cmds, cap_stale, fresh_start, pause_from, run_sinks>>

\* run, line 421: source = self.config['input']
Run_open_input ==
    /\ pc["rl"] = "open_input"
    /\ rl' = [rl EXCEPT !.source = config.input]
    /\ cfg_seen' = {SourceSetting(config)}
    /\ Goto("rl", "open_device")
    /\ UNCHANGED <<state, frame_count, thread_should_stop, config, pose_detector, capVars, oscVars,
                   ndiVars, preview_frame_queue, perfVars, guiVars, restVars, stk, arg,
                   cmds, cap_stale, fresh_start, pause_from, run_sinks>>

\* cv2.VideoCapture(camera_id) / cv2.VideoCapture(path): the capture object and
\* whether it is opened.
OpenCamera(id) == [exists |-> TRUE, opened |-> (id = 0), kind |-> "webcam",
                   path |-> None, cam |-> id, pos |-> 0, rewinds |-> 0]

OpenFile(path) == [exists |-> TRUE, opened |-> (path = "clipA"), kind |-> "file",
                   path |-> path, cam |-> 0, pos |-> 0, rewinds |-> 0]

\* run, lines 422-425: the capture object created for the source read at 421.
OpenSource(source, cfg) ==
    IF source = "webcam" THEN OpenCamera(cfg.camera_id)
    ELSE IF source = "file" /\ cfg.video_file # None THEN OpenFile(cfg.video_file)
    ELSE NoCapture

\* run, lines 422-425
Run_open_device ==
    /\ pc["rl"] = "open_device"
    /\ video_capture' = OpenSource(rl.source, config)
    /\ cap_stale' = FALSE
    /\ rl' = [rl EXCEPT !.source = None]
    /\ cfg_seen' = {SourceSetting(config)}
    /\ Goto("rl", "open_check")
    /\ UNCHANGED <<state, frame_count, thread_should_stop, config, pose_detector, video_width,
                   video_height, oscVars, ndiVars, preview_frame_queue, perfVars, guiVars,
                   restVars, stk, arg, cmds, fresh_start, pause_from, run_sinks>>

\* A test that would take an unopened capture object for a success.
OpenFailed_OnlyMissing(cap) == ~cap.exists

\* run, line 427: if not self.video_capture or not self.video_capture.isOpened()
OpenFailed(cap) == ~cap.exists \/ ~cap.opened

\* run, lines 427-445: a failed open calls stop() and continues the loop; a
\* successful one records the resolution and logs a performance event.
Run_open_check ==
    /\ pc["rl"] = "open_check"
    /\ IF OpenFailed(video_capture)
       THEN /\ arg' = [arg EXCEPT !["rl"].ns = "STOPPED"]
            /\ pc' = [pc EXCEPT !["rl"] = "us_assign"]
            /\ stk' = [stk EXCEPT !["rl"] = StopBody \o <<"loop">>]
            /\ UNCHANGED <<video_width, video_height>>
       ELSE /\ video_width' = 640
            /\ video_height' = 480
            /\ pc' = [pc EXCEPT !["rl"] = "pe_model"]
            /\ stk' = [stk EXCEPT !["rl"] = <<"capture">>]
            /\ UNCHANGED arg
    /\ UNCHANGED <<state, frame_count, thread_should_stop, cfgVars, video_capture,
                   oscVars, ndiVars, preview_frame_queue, perfVars, guiVars, restVars,
                   rl, cmds, cap_stale, fresh_start, pause_from, run_sinks>>

\* video_capture.read(): a camera delivers a frame unless the device fails
\* (camok), a file delivers its next frame until its end.
CanRead(cap, len, camok) == IF cap.kind = "webcam" THEN camok ELSE cap.pos < len

AfterRead(cap) == IF cap.kind = "file" THEN [cap EXCEPT !.pos = @ + 1] ELSE cap

\* A seek that would leave the position at the end of the file.
Rewind_Stay(cap) == [cap EXCEPT !.rewinds = @ + 1]

\* video_capture.set(cv2.CAP_PROP_POS_FRAMES, 0)
Rewind(cap) == [cap EXCEPT !.pos = 0, !.rewinds = @ + 1]

\* A condition that would loop a file whatever the flag says.
LoopWanted_AnyFile(cfg) == cfg.input = "file"

\* capture_frame, line 523: the condition for looping.
LoopWanted(cfg) == cfg.input = "file" /\ cfg.loop_video

\* capture_frame, lines 517-528: the capture object afterwards and whether a
\* frame was returned.
CaptureFrame(cap, cfg, len, camok) ==
    IF ~(cap.exists /\ cap.opened) THEN [cap |-> cap, got |-> FALSE]
    ELSE IF CanRead(cap, len, camok) THEN [cap |-> AfterRead(cap), got |-> TRUE]
    ELSE IF LoopWanted(cfg)
         THEN IF CanRead(Rewind(cap), len, camok)
              THEN [cap |-> AfterRead(Rewind(cap)), got |-> TRUE]
              ELSE [cap |-> Rewind(cap), got |-> FALSE]
    ELSE [cap |-> cap, got |-> FALSE]

\* run, lines 449-450 and 491-495: frame = self.capture_frame(); without a
\* frame the run-loop calls stop_video_stream() and continues.  At most
\* frame_cap frames are obtained.
Run_capture ==
    /\ pc["rl"] = "capture"
    /\ \E camok \in IF video_capture.kind = "webcam" THEN BOOLEAN ELSE {TRUE} :
       LET r == CaptureFrame(video_capture, config, file_len, camok) IN
         /\ r.got => frame_count < frame_cap
         /\ video_capture' = r.cap
         /\ IF r.got
            THEN /\ rl' = [rl EXCEPT !.frame = [n |-> -1, ov |-> 0]]
                 /\ Goto("rl", "count_read")
                 /\ UNCHANGED stk
            ELSE /\ UNCHANGED rl
                 /\ pc' = [pc EXCEPT !["rl"] = "stop_video"]
                 /\ stk' = [stk EXCEPT !["rl"] = <<"loop">>]
    /\ UNCHANGED <<state, frame_count, thread_should_stop, cfgVars, video_width,
                   video_height, oscVars, ndiVars, preview_frame_queue, perfVars, guiVars,
                   restVars, arg, cmds, cap_stale, fresh_start, pause_from, run_sinks>>

\* run, line 451: self.frame_count += 1, the read of the counter
Run_count_read ==
    /\ pc["rl"] = "count_read"
    /\ rl' = [rl EXCEPT !.tmp = frame_count]
    /\ Goto("rl", "count_write")
    /\ UNCHANGED <<state, frame_count, thread_should_stop, cfgVars, capVars, oscVars,
                   ndiVars, preview_frame_queue, perfVars, guiVars, restVars, stk, arg,
                   cmds, cap_stale, fresh_start, pause_from, run_sinks>>

\* run, line 451: self.frame_count += 1, the write of the counter.  The frame
\* is known by this number from here on.
Run_count_write ==
    /\ pc["rl"] = "count_write"
    /\ frame_count' = rl.tmp + 1
    /\ fresh_start' = fresh_start \ {"due"}
    /\ rl' = [rl EXCEPT !.tmp = 0, !.frame = [n |-> rl.tmp + 1, ov |-> 0]]
    /\ Goto("rl", "process")
    /\ UNCHANGED <<state, thread_should_stop, cfgVars, capVars, oscVars, ndiVars,
                   preview_frame_queue, perfVars, guiVars, restVars, stk, arg, cmds,
                   cap_stale, pause_from, run_sinks>>

\* run, line 460: self.pose_detector.process_image(frame)
Run_process ==
    /\ pc["rl"] = "process"
    /\ rl' = [rl EXCEPT !.det = pose_detector]
    /\ Goto("rl", "overlay")
    /\ UNCHANGED <<state, frame_count, thread_should_stop, cfgVars, capVars, oscVars,
                   ndiVars, preview_frame_queue, perfVars, guiVars, restVars, stk, arg,
                   cmds, cap_stale, fresh_start, pause_from, run_sinks>>

\* run, lines 463-467: the overlay is drawn on the frame if the flag is set;
\* the processing time has been measured.
Run_overlay ==
    /\ pc["rl"] = "overlay"
    /\ \E t \in FrameTimes :
         rl' = [rl EXCEPT !.frame.ov = IF config.draw_ndi_overlay THEN @ + 1 ELSE @,
                          !.t = t]
    /\ Goto("rl", "pf_model")
    /\ UNCHANGED <<state, frame_count, thread_should_stop, cfgVars, capVars, oscVars,
                   ndiVars, preview_frame_queue, perfVars, guiVars, restVars, stk, arg,
                   cmds, cap_stale, fresh_start, pause_from, run_sinks>>

\* _log_perf_frame, lines 227-230: return if logging is disabled;
\* model_name = self.config['detector_model']
PerfFrame_model ==
    /\ pc["rl"] = "pf_model"
    /\ IF ~LogDisabled(perf_log_file)
       THEN rl' = [rl EXCEPT !.model = config.detector_model] /\ Goto("rl", "pf_ref")
       ELSE rl' = [rl EXCEPT !.t = 0] /\ Goto("rl", "osc_check")
    /\ UNCHANGED <<state, frame_count, thread_should_stop, cfgVars, capVars, oscVars,
                   ndiVars, preview_frame_queue, perfVars, guiVars, restVars, stk, arg,
                   cmds, cap_stale, fresh_start, pause_from, run_sinks>>

\* _log_perf_frame, lines 240-244: the entry is created if missing, and
\* stats refers to the stored dictionary.
PerfFrame_ref ==
    /\ pc["rl"] = "pf_ref"
    /\ model_perf_stats' = IF model_perf_stats[rl.model].present THEN model_perf_stats
                           ELSE [model_perf_stats EXCEPT ![rl.model] = NewStats]
    /\ rl' = [rl EXCEPT !.holds = TRUE, !.live = TRUE]
    /\ Goto("rl", "pf_write")
    /\ UNCHANGED <<state, frame_count, thread_should_stop, cfgVars, capVars, oscVars,
                   ndiVars, preview_frame_queue, last_row, since, guiVars, restVars, stk,
                   arg, cmds, cap_stale, fresh_start, pause_from, run_sinks>>

\* An update that would add the time without counting the frame.
AddSample_NoCount(st, t) == [st EXCEPT !.total_time = @ + t]

\* _log_perf_frame, lines 245-246: the dictionary after one more frame.
AddSample(st, t) == [st EXCEPT !.total_time = @ + t, !.frame_count = @ + 1]

\* _log_perf_frame, lines 245-257: the held dictionary is updated, the running
\* average is total_time / frame_count of that dictionary (kept as the pair),
\* and the frame row is appended.
PerfFrame_write ==
    /\ pc["rl"] = "pf_write"
    /\ LET held == IF rl.live THEN model_perf_stats[rl.model] ELSE rl.orphan
           upd == AddSample(held, rl.t)
       IN /\ model_perf_stats' = IF rl.live
                                 THEN [model_perf_stats EXCEPT ![rl.model] = upd]
                                 ELSE model_perf_stats
          /\ last_row' = [kind |-> "frame", model |-> rl.model, frame_num |-> frame_count,
                          time |-> rl.t, avg_total |-> upd.total_time,
                          avg_count |-> upd.frame_count]
    /\ since' = [since EXCEPT ![rl.model] =
                    [present |-> TRUE, total_time |-> @.total_time + rl.t,
                     frame_count |-> @.frame_count + 1]]
    /\ rl' = [rl EXCEPT !.model = None, !.holds = FALSE, !.live = TRUE,
                        !.orphan = NewStats, !.t = 0]
    /\ Goto("rl", "osc_check")
    /\ UNCHANGED <<state, frame_count, thread_should_stop, cfgVars, capVars, oscVars,
                   ndiVars, preview_frame_queue, guiVars, restVars, stk, arg, cmds,
                   cap_stale, fresh_start, pause_from, run_sinks>>

\* run, line 473: if self.osc_active
Run_osc_check ==
    /\ pc["rl"] = "osc_check"
    /\ IF osc_active THEN Goto("rl", "osc_call") ELSE Goto("rl", "preview_overlay")
    /\ UNCHANGED <<state, frame_count, thread_should_stop, cfgVars, capVars, oscVars,
                   ndiVars, preview_frame_queue, perfVars, guiVars, restVars, stk, arg,
                   rl, cmds, cap_stale, fresh_start, pause_from, run_sinks>>

\* run, line 474: send_landmarks_via_osc(self.osc_client, self.frame_count, ...):
\* the arguments are read here; the method returns at once without a client
\* (abstract_pose_detector.py 87-88) and builds the bundle otherwise (90-240).
Run_osc_call ==
    /\ pc["rl"] = "osc_call"
    /\ IF osc_client = None
       THEN UNCHANGED rl /\ Goto("rl", "preview_overlay")
       ELSE rl' = [rl EXCEPT !.client = osc_client, !.cnt = frame_count]
            /\ Goto("rl", "osc_send")
    /\ UNCHANGED <<state, frame_count, thread_should_stop, cfgVars, capVars, oscVars,
                   ndiVars, preview_frame_queue, perfVars, guiVars, restVars, stk, arg,
                   cmds, cap_stale, fresh_start, pause_from, run_sinks>>

\* abstract_pose_detector.py 242-243: client.send(bundle), on the client that
\* was passed in; the send may raise.
Run_osc_send ==
    /\ pc["rl"] = "osc_send"
    /\ osc_sent' = rl.cnt
    /\ rl' = [rl EXCEPT !.client = None, !.cnt = 0]
    /\ \E ok \in BOOLEAN :
         IF ok THEN Goto("rl", "preview_overlay") ELSE Goto("rl", "osc_except")
    /\ UNCHANGED <<state, frame_count, thread_should_stop, cfgVars, capVars, osc_client,
                   osc_active, ndiVars, preview_frame_queue, perfVars, guiVars, restVars,
                   stk, arg, cmds, cap_stale, fresh_start, pause_from, run_sinks>>

\* A handler that would switch the sink off after a failed send.
ActiveAfterSendError_Off(active) == FALSE

\* abstract_pose_detector.py 244-245 and send_video_via_ndi, lines 408-409:
\* the handler only reports the error; the activation flag stays as it is.
ActiveAfterSendError(active) == active

\* abstract_pose_detector.py 244-245: except Exception: print; the call
\* returns to run, line 476.
Run_osc_except ==
    /\ pc["rl"] = "osc_except"
    /\ osc_active' = ActiveAfterSendError(osc_active)
    /\ Goto("rl", "preview_overlay")
    /\ UNCHANGED <<state, frame_count, thread_should_stop, cfgVars, capVars, osc_client,
                   osc_sent, ndiVars, preview_frame_queue, perfVars, guiVars, restVars,
                   stk, arg, rl, cmds, cap_stale, fresh_start, pause_from, run_sinks>>

\* run, lines 478-481: the preview copy gets the overlay if the frame did not.
Run_preview_overlay ==
    /\ pc["rl"] = "preview_overlay"
    /\ rl' = [rl EXCEPT !.pov = IF config.draw_ndi_overlay THEN rl.frame.ov
                                 ELSE rl.frame.ov + 1]
    /\ Goto("rl", "preview_put")
    /\ UNCHANGED <<state, frame_count, thread_should_stop, cfgVars, capVars, oscVars,
                   ndiVars, preview_frame_queue, perfVars, guiVars, restVars, stk, arg,
                   cmds, cap_stale, fresh_start, pause_from, run_sinks>>

\* A relay that would make room by discarding its oldest frame.
PutNowait_DropOldest(q, f) ==
    IF Len(q) >= PreviewMaxSize THEN Append(Tail(q), f) ELSE Append(q, f)

\* queue.Queue(maxsize=2).put_nowait: queue.Full is raised, and caught at
\* lines 486-487, when the queue holds maxsize items.
PutNowait(q, f) == IF Len(q) >= PreviewMaxSize THEN q ELSE Append(q, f)

\* A put that would wait for a free slot, as queue.Queue.put does.
PutReady_Blocking(q) == Len(q) < PreviewMaxSize

\* run, line 485: put_nowait can be executed whatever the queue holds.
PutReady(q) == TRUE

\* run, lines 484-487
Run_preview_put ==
    /\ pc["rl"] = "preview_put"
    /\ PutReady(preview_frame_queue)
    /\ preview_frame_queue' = PutNowait(preview_frame_queue, [n |-> rl.frame.n, ov |-> rl.pov])
    /\ rl' = [rl EXCEPT !.pov = 0]
    /\ Goto("rl", "ndi_check")
    /\ UNCHANGED <<state, frame_count, thread_should_stop, cfgVars, capVars, oscVars,
                   ndiVars, perfVars, guiVars, restVars, stk, arg, cmds, cap_stale, fresh_start, pause_from, run_sinks>>

\* send_video_via_ndi, lines 396-397: if not self.ndi_sender: return; the
\* iteration then ends with the pacing sleep (lines 498-501).
Run_ndi_check ==
    /\ pc["rl"] = "ndi_check"
    /\ IF ndi_sender = None
       THEN rl' = RlInit /\ Goto("rl", "loop")
       ELSE UNCHANGED rl /\ Goto("rl", "ndi_send")
    /\ UNCHANGED <<state, frame_count, thread_should_stop, cfgVars, capVars, oscVars,
                   ndiVars, preview_frame_queue, perfVars, guiVars, restVars, stk, arg,
                   cmds, cap_stale, fresh_start, pause_from, run_sinks>>

\* send_video_via_ndi, lines 399-407: the frame is handed to self.ndi_sender;
\* the conversion or the send may raise, and a send on a destroyed sender
\* does.  After a successful send the pacing sleep (lines 498-501) ends the
\* iteration.
Run_ndi_send ==
    /\ pc["rl"] = "ndi_send"
    /\ ndi_sent' = IF ndi_sender = "live" THEN rl.frame.n ELSE ndi_sent
    /\ \E ok \in BOOLEAN :
         IF ndi_sender = "live" /\ ok
         THEN rl' = RlInit /\ Goto("rl", "loop")
         ELSE UNCHANGED rl /\ Goto("rl", "ndi_except")
    /\ UNCHANGED <<state, frame_count, thread_should_stop, cfgVars, capVars, oscVars,
                   ndi_sender, ndi_active, ndi_initialized, preview_frame_queue, perfVars,
                   guiVars, restVars, stk, arg, cmds, cap_stale, fresh_start, pause_from, run_sinks>>

\* send_video_via_ndi, lines 408-409: except Exception: logging.error; then
\* the pacing sleep (lines 498-501).
Run_ndi_except ==
    /\ pc["rl"] = "ndi_except"
    /\ ndi_active' = ActiveAfterSendError(ndi_active)
    /\ rl' = RlInit
    /\ Goto("rl", "loop")
    /\ UNCHANGED <<state, frame_count, thread_should_stop, cfgVars, capVars, oscVars,
                   ndi_sender, ndi_initialized, ndi_sent, preview_frame_queue, perfVars,
                   guiVars, restVars, stk, arg, cmds, cap_stale, fresh_start, pause_from, run_sinks>>

\* ----------------------------------------------------------- front end
\* poseCamPC.py 58-59 and set_gui, lines 91-99: the front end is attached and
\* shows the configured detector.
SetGui ==
    /\ pc["fe"] = "idle"
    /\ ~gui
    /\ gui' = TRUE
    /\ gui_selected' = config.detector_model
    /\ UNCHANGED <<state, frame_count, thread_should_stop, cfgVars, capVars, oscVars,
                   ndiVars, preview_frame_queue, perfVars, gui_state, gui_osc, gui_ndi,
                   restVars, pc, stk, arg, rl, cmds, cap_stale, fresh_start, pause_from, run_sinks>>

\* _update_preview_loop, tk_gui.py 331-371: between two callbacks the front end
\* takes the oldest frame of the relay, if there is one.
PreviewPoll ==
    /\ pc["fe"] = "idle"
    /\ gui
    /\ preview_frame_queue # << >>
    /\ preview_frame_queue' = Tail(preview_frame_queue)
    /\ gui_preview' = Head(preview_frame_queue)
    /\ UNCHANGED <<state, frame_count, thread_should_stop, cfgVars, capVars, oscVars,
                   ndiVars, perfVars, guiVars, perf_log_file, file_len, frame_cap, pc,
                   stk, arg, rl, cmds, cap_stale, fresh_start, pause_from, run_sinks>>

\* ------------------------------------------------------------ commands
\* The controller methods without arguments that the front end calls
\* (tk_gui.py 156-180, 125-148; batch_tester.py 143-175) and the continuation
\* each pushes.
FrontEndOps == {"start_all", "start", "pause", "stop_video", "stop", "shutdown",
                "start_osc", "stop_osc", "start_ndi", "stop_ndi"}

\* osc_listener.py 32-39: handle_start, handle_stop, handle_pause
ListenerOps == {"start", "stop", "pause"}

\* The configuration keys each context sets (tk_gui.py 193-251,
\* batch_tester.py 170-173; osc_listener.py 41-45).
ConfigKeys(c) == IF c = "fe"
                 THEN {"input", "video_file", "camera_id", "loop_video", "draw_ndi_overlay"}
                 ELSE {"input", "video_file"}

ConfigValues(k) ==
    CASE k = "input" -> {"file", "webcam"}
      [] k = "video_file" -> VideoFiles
      [] k = "camera_id" -> CameraIds
      [] k = "loop_video" -> BOOLEAN
      [] k = "draw_ndi_overlay" -> BOOLEAN

\* The first statement of a controller method and the calls that follow it.
Entry(op) ==
    CASE op = "start_all" -> <<"stn_check">> \o StartAllBody
      [] op = "start" -> <<"start">>
      [] op = "pause" -> <<"pause">>
      [] op = "stop_video" -> <<"stop_video">>
      [] op = "stop" -> <<"us_assign">> \o StopBody
      [] op = "shutdown" -> <<"shutdown">>
      [] op = "start_osc" -> <<"sto_check">>
      [] op = "stop_osc" -> <<"so_client">>
      [] op = "start_ndi" -> <<"stn_check">>
      [] op = "stop_ndi" -> <<"sn_destroy">>

\* A context that is not inside a controller method may call one, until the
\* front end has closed.
CanInvoke(c) ==
    /\ pc[c] = "idle"
    /\ pc["fe"] # "closed"
    /\ cmds < MaxCmds

\* A call of a method without arguments, one of ops.
InvokeOp(c, ops) ==
    /\ CanInvoke(c)
    /\ \E op \in ops :
         /\ pc' = [pc EXCEPT ![c] = Head(Entry(op))]
         /\ stk' = [stk EXCEPT ![c] = Tail(Entry(op)) \o <<"idle">>]
         /\ arg' = [arg EXCEPT ![c].ns = IF op = "stop" THEN "STOPPED" ELSE None]
    /\ cmds' = cmds + 1
    /\ pause_from' = << >>
    /\ UNCHANGED <<state, frame_count, thread_should_stop, cfgVars, capVars, oscVars,
                   ndiVars, preview_frame_queue, perfVars, guiVars, perf_log_file,
                   file_len, frame_cap, gui_preview, rl, cap_stale, fresh_start, run_sinks>>

\* A call of pause() by the front end (tk_gui.py 170-171), with the state it
\* finds added to pause_from; at most MaxPauses in a row.
InvokePause ==
    /\ pc["fe"] = "idle"
    /\ Len(pause_from) < MaxPauses
    /\ pc' = [pc EXCEPT !["fe"] = "pause"]
    /\ stk' = [stk EXCEPT !["fe"] = <<"idle">>]
    /\ pause_from' = Append(pause_from, state)
    /\ UNCHANGED <<state, frame_count, thread_should_stop, cfgVars, capVars, oscVars,
                   ndiVars, preview_frame_queue, perfVars, guiVars, perf_log_file,
                   file_len, frame_cap, gui_preview, arg, rl, cmds, cap_stale,
                   fresh_start, run_sinks>>

\* A call of update_config(key, value), for one of keys.
InvokeUpdateConfig(c, keys) ==
    /\ CanInvoke(c)
    /\ \E k \in keys : \E v \in ConfigValues(k) :
         arg' = [arg EXCEPT ![c].key = k, ![c].val = v]
    /\ pc' = [pc EXCEPT ![c] = "uc_set"]
    /\ stk' = [stk EXCEPT ![c] = <<"idle">>]
    /\ cmds' = cmds + 1
    /\ pause_from' = << >>
    /\ UNCHANGED <<state, frame_count, thread_should_stop, cfgVars, capVars, oscVars,
                   ndiVars, preview_frame_queue, perfVars, guiVars, perf_log_file,
                   file_len, frame_cap, gui_preview, rl, cap_stale, fresh_start, run_sinks>>

\* A call of change_detector_model(model_name): with a front end attached it
\* is made by _on_detector_select with the model just selected (tk_gui.py
\* 263-264); batch_tester.py 169 calls it without a front end.
InvokeChangeDetector ==
    /\ CanInvoke("fe")
    /\ \E m \in Models :
         /\ arg' = [arg EXCEPT !["fe"].model = m]
         /\ gui_selected' = IF gui THEN m ELSE gui_selected
    /\ pc' = [pc EXCEPT !["fe"] = "cdm"]
    /\ stk' = [stk EXCEPT !["fe"] = <<"idle">>]
    /\ cmds' = cmds + 1
    /\ pause_from' = << >>
    /\ UNCHANGED <<state, frame_count, thread_should_stop, cfgVars, capVars, oscVars,
                   ndiVars, preview_frame_queue, perfVars, gui, gui_state, gui_osc,
                   gui_ndi, perf_log_file, file_len, frame_cap, gui_preview, rl,
                   cap_stale, fresh_start, run_sinks>>

\* ------------------------------------------------- statements by method
\* update_state, start, stop_video_stream, pause
StateStep(c) ==
    \/ US_assign(c)
    \/ US_notify(c)
    \/ Start_guard(c)
    \/ Start_reset(c)
    \/ StopVideo(c)
    \/ Pause_first(c)
    \/ Pause_elif(c)

\* stop_osc, stop_ndi (also as the tail of stop)
SinkStopStep(c) ==
    \/ StopOsc_client(c)
    \/ StopOsc_active(c)
    \/ Osc_notify(c)
    \/ StopNdi_destroy(c)
    \/ StopNdi_clear(c)
    \/ Ndi_notify(c)

\* start_osc, start_ndi
SinkStartStep(c) ==
    \/ StartOsc_check(c)
    \/ StartOsc_create(c)
    \/ StartOsc_active(c)
    \/ StartNdi_check(c)
    \/ StartNdi_create(c)
    \/ StartNdi_active(c)

\* shutdown
ShutdownStep(c) ==
    \/ Shutdown_set(c)
    \/ Shutdown_ndi(c)

\* update_config
ConfigStep(c) ==
    \/ UpdateConfig_set(c)
    \/ UpdateConfig_notify(c)

\* _log_perf_event
PerfEventStep(c) ==
    \/ PerfEvent_model(c)
    \/ PerfEvent_reset(c)
    \/ PerfEvent_row(c)

\* change_detector_model, _initialize_detector
DetectorStep(c) ==
    \/ ChangeDetector_guard(c)
    \/ ChangeDetector_revert(c)
    \/ ChangeDetector_same(c)
    \/ InitializeDetector(c)

\* run(): the loop head and the idle branch
RunIdleStep ==
    \/ Run_loop
    \/ Run_check_paused
    \/ Run_idle_release
    \/ Run_idle_reset
    \/ Run_idle_sleep

\* run(): the loop head and the idle branch where no capture object is ever
\* left to release (no stop follows a successful open)
RunIdleBare ==
    \/ Run_loop
    \/ Run_check_paused
    \/ Run_idle_release
    \/ Run_idle_sleep

\* run(): opening the source (its _log_perf_event is a PerfEventStep)
RunOpenStep ==
    \/ Run_open_input
    \/ Run_open_device
    \/ Run_open_check

\* run(): one frame, without the performance log and the sinks
RunFrameStep ==
    \/ Run_capture
    \/ Run_count_read
    \/ Run_count_write
    \/ Run_process
    \/ Run_overlay
    \/ PerfFrame_model
    \/ Run_osc_check
    \/ Run_preview_overlay
    \/ Run_preview_put
    \/ Run_ndi_check

\* _log_perf_frame with logging enabled
RunPerfStep ==
    \/ PerfFrame_ref
    \/ PerfFrame_write

\* run(): the transmissions to active sinks
RunSendStep ==
    \/ Run_osc_call
    \/ Run_osc_send
    \/ Run_osc_except
    \/ Run_ndi_send
    \/ Run_ndi_except

\* ------------------------------------------------------ specifications
\* Every context, every command.
NextAll ==
    \/ RunIdleStep
    \/ RunOpenStep
    \/ RunFrameStep
    \/ RunPerfStep
    \/ RunSendStep
    \/ \E c \in Ctx : StateStep(c) \/ SinkStopStep(c) \/ PerfEventStep(c)
    \/ \E c \in CmdCtx : SinkStartStep(c) \/ ShutdownStep(c) \/ ConfigStep(c) \/ DetectorStep(c)
    \/ InvokeOp("fe", FrontEndOps)
    \/ InvokeOp("cl", ListenerOps)
    \/ \E c \in CmdCtx : InvokeUpdateConfig(c, ConfigKeys(c))
    \/ InvokeChangeDetector
    \/ SetGui
    \/ PreviewPoll

SpecAll == Init /\ [][NextAll]_vars

\* The state machine and the capture object: the default configuration with a
\* playable looping file; the front end (as batch_tester.py, without a preview
\* consumer) and the listener issue start, pause and the stop commands.
InitCtl ==
    /\ Init
    /\ config.video_file = "clipA"
    /\ file_len = MaxFileLen
    /\ frame_cap = MaxCtlFrames

CtlOps(c) == IF c = "fe" THEN {"start", "pause", "stop_video", "stop", "shutdown"}
             ELSE ListenerOps

NextCtl ==
    \/ RunIdleStep
    \/ RunOpenStep
    \/ RunFrameStep
    \/ RunPerfStep
    \/ \E c \in Ctx : StateStep(c) \/ PerfEventStep(c)
    \/ \E c \in CmdCtx : SinkStopStep(c) \/ ShutdownStep(c)
    \/ \E c \in CmdCtx : InvokeOp(c, CtlOps(c))

Spec == InitCtl /\ [][NextCtl]_vars

\* Changing the detector: the front end, attached or not (tk_gui.py,
\* batch_tester.py), issues start, pause, stop_video_stream and
\* change_detector_model while the run-loop plays the looping file.
CfgOps == {"start", "pause", "stop_video"}

NextCfg ==
    \/ RunIdleStep
    \/ RunOpenStep
    \/ RunFrameStep
    \/ RunPerfStep
    \/ \E c \in Ctx : StateStep(c) \/ PerfEventStep(c)
    \/ ConfigStep("fe")
    \/ DetectorStep("fe")
    \/ InvokeOp("fe", CfgOps)
    \/ InvokeChangeDetector
    \/ SetGui

SpecCfg == InitCtl /\ [][NextCfg]_vars

\* The preview relay: logging disabled; the front end calls start_all, pause
\* and stop_video_stream, is attached at some time and from then on may take
\* frames from the relay, at any pace or never.
InitRelay ==
    /\ Init
    /\ config.video_file = "clipA"
    /\ file_len = MaxFileLen
    /\ frame_cap = MaxFrames
    /\ ~perf_log_file

RelayOps == {"start_all", "pause", "stop_video"}

\* The statements of the run-loop thread.
RunLoopStep ==
    \/ RunIdleStep
    \/ RunOpenStep
    \/ RunFrameStep
    \/ RunSendStep
    \/ StateStep("rl")
    \/ PerfEvent_model("rl")

NextRelay ==
    \/ RunLoopStep
    \/ StateStep("fe")
    \/ SinkStartStep("fe")
    \/ Osc_notify("fe")
    \/ Ndi_notify("fe")
    \/ InvokeOp("fe", RelayOps)
    \/ SetGui
    \/ PreviewPoll

SpecRelay == InitRelay /\ [][NextRelay]_vars

\* Here the front end calls start_ndi and start only: once RUNNING and
\* observed by the run-loop, the state stays RUNNING.
RunLoopLive ==
    \/ RunIdleBare
    \/ RunOpenStep
    \/ RunFrameStep
    \/ Run_ndi_send
    \/ Run_ndi_except
    \/ US_assign("rl")
    \/ US_notify("rl")
    \/ PerfEvent_model("rl")

NextRelayLive ==
    \/ RunLoopLive
    \/ US_assign("fe")
    \/ US_notify("fe")
    \/ Start_guard("fe")
    \/ Start_reset("fe")
    \/ StartNdi_check("fe")
    \/ StartNdi_create("fe")
    \/ StartNdi_active("fe")
    \/ Ndi_notify("fe")
    \/ InvokeOp("fe", {"start_ndi", "start"})
    \/ SetGui
    \/ PreviewPoll

\* The run-loop is a thread of its own (poseCamPC.py 54-55) whose statements
\* between two loop heads never wait for another thread, so it keeps taking
\* steps; nothing is assumed about the front end.
SpecRelayFair == InitRelay /\ [][NextRelayLive]_vars /\ WF_vars(RunLoopLive)

\* The performance log: logging enabled; the front end calls start, pause and
\* stop_video_stream and never changes the configuration.
InitPerf ==
    /\ Init
    /\ config.video_file = "clipA"
    /\ file_len = MaxFileLen
    /\ frame_cap = MaxFrames
    /\ perf_log_file

NextPerf ==
    \/ RunIdleStep
    \/ RunOpenStep
    \/ RunFrameStep
    \/ RunPerfStep
    \/ \E c \in {"rl", "fe"} : StateStep(c)
    \/ PerfEventStep("rl")
    \/ InvokeOp("fe", CfgOps)

SpecPerf == InitPerf /\ [][NextPerf]_vars

\* The statements of the run-loop thread with logging enabled.
RunLoopPerf ==
    \/ RunIdleStep
    \/ RunOpenStep
    \/ RunFrameStep
    \/ RunPerfStep
    \/ StateStep("rl")
    \/ PerfEventStep("rl")

\* The run-loop thread (poseCamPC.py 54-55) never waits for another thread:
\* its sleeps are timed (lines 498-503, 515), so it keeps taking steps.
\* Nothing is assumed about the front end.
SpecPerfFair == InitPerf /\ [][NextPerf]_vars /\ WF_vars(RunLoopPerf)

\* The same with a front end that also sets the overlay flag (tk_gui.py
\* 193-195).
NextOverlay ==
    \/ NextPerf
    \/ ConfigStep("fe")
    \/ PerfEventStep("fe")
    \/ InvokeUpdateConfig("fe", {"draw_ndi_overlay"})

SpecOverlay == InitPerf /\ [][NextOverlay]_vars

\* A looping file of 1..MaxFileLen frames: the front end calls start() once
\* and nothing else.
InitLoop ==
    /\ Init
    /\ config.video_file = "clipA"
    /\ file_len >= 1
    /\ frame_cap = MaxFrames

InvokeStartOnce ==
    /\ cmds = 0
    /\ InvokeOp("fe", {"start"})

NextLoop ==
    \/ RunIdleBare
    \/ RunOpenStep
    \/ RunFrameStep
    \/ RunPerfStep
    \/ PerfEventStep("rl")
    \/ \E c \in {"rl", "fe"} : US_assign(c) \/ US_notify(c)
    \/ Start_guard("fe")
    \/ Start_reset("fe")
    \/ InvokeStartOnce

SpecLoop == InitLoop /\ [][NextLoop]_vars

\* stop(): logging disabled, the default video present or missing (a missing
\* one makes the open fail); only the front end issues commands, start_all,
\* pause, stop_video_stream and stop, so every stop_ndi() is the tail of a
\* stop().
InitStop ==
    /\ Init
    /\ file_len = MaxFileLen
    /\ frame_cap = MaxCtlFrames
    /\ ~perf_log_file

StopOps == {"start_all", "pause", "stop_video", "stop"}

NextStop ==
    \/ RunIdleStep
    \/ RunOpenStep
    \/ RunFrameStep
    \/ RunSendStep
    \/ PerfEvent_model("rl")
    \/ \E c \in {"rl", "fe"} : StateStep(c) \/ SinkStopStep(c)
    \/ SinkStartStep("fe")
    \/ InvokeOp("fe", StopOps)

SpecStop == InitStop /\ [][NextStop]_vars

\* End of stream: a file of 0..MaxFileLen frames or the camera; the front end
\* sets the input kind and the loop flag and calls start_all.
InitEos ==
    /\ Init
    /\ config.video_file = "clipA"
    /\ frame_cap = MaxFrames
    /\ ~perf_log_file

NextEos ==
    \/ RunIdleStep
    \/ RunOpenStep
    \/ RunFrameStep
    \/ RunSendStep
    \/ PerfEvent_model("rl")
    \/ StopVideo("rl")
    \/ \E c \in {"rl", "fe"} : US_assign(c) \/ US_notify(c)
    \/ Start_guard("fe")
    \/ Start_reset("fe")
    \/ SinkStartStep("fe")
    \/ Osc_notify("fe")
    \/ Ndi_notify("fe")
    \/ ConfigStep("fe")
    \/ InvokeOp("fe", {"start_all"})
    \/ InvokeUpdateConfig("fe", {"input", "loop_video"})

SpecEos == InitEos /\ [][NextEos]_vars

\* Opening the source: the default video present or missing; the front end
\* selects the input kind, the file (playable or not) and the camera (present
\* or not) and calls start.
InitOpen ==
    /\ Init
    /\ file_len = MaxFileLen
    /\ frame_cap = MaxCtlFrames
    /\ ~perf_log_file

NextOpen ==
    \/ RunIdleStep
    \/ RunOpenStep
    \/ RunFrameStep
    \/ PerfEvent_model("rl")
    \/ StopVideo("rl")
    \/ SinkStopStep("rl")
    \/ \E c \in {"rl", "fe"} : US_assign(c) \/ US_notify(c)
    \/ Start_guard("fe")
    \/ Start_reset("fe")
    \/ ConfigStep("fe")
    \/ InvokeOp("fe", {"start"})
    \/ InvokeUpdateConfig("fe", {"input", "video_file", "camera_id"})

SpecOpen == InitOpen /\ [][NextOpen]_vars

\* Shutdown: as for stop(), with a front end that calls start_all, pause and
\* shutdown (on_closing, tk_gui.py 156-160).
NextShutdown ==
    \/ RunIdleStep
    \/ RunOpenStep
    \/ RunFrameStep
    \/ RunSendStep
    \/ PerfEvent_model("rl")
    \/ \E c \in {"rl", "fe"} : StateStep(c) \/ SinkStopStep(c)
    \/ SinkStartStep("fe")
    \/ ShutdownStep("fe")
    \/ InvokeOp("fe", {"start_all", "pause", "stop_video", "shutdown"})

SpecShutdown == InitStop /\ [][NextShutdown]_vars

\* The output sinks: logging disabled, a playable file or none selected (the
\* open then fails and the run-loop calls stop()); the front end, attached at
\* some time, calls start and the four sink operations.
InitSink ==
    /\ InitStop
    /\ ~gui

SinkOps == {"start", "start_osc", "stop_osc", "start_ndi", "stop_ndi"}

\* The statements of start_osc, stop_osc, start_ndi and stop_ndi.
SinkLabels == {"sto_check", "sto_create", "sto_active", "so_client", "so_active",
               "so_notify", "stn_check", "stn_create", "stn_active", "sn_destroy",
               "sn_clear", "sn_active", "sn_notify"}

NextSink ==
    \/ RunIdleBare
    \/ RunOpenStep
    \/ RunFrameStep
    \/ RunSendStep
    \/ PerfEvent_model("rl")
    \/ \E c \in {"rl", "fe"} : US_assign(c) \/ US_notify(c)
    \/ Start_guard("fe")
    \/ Start_reset("fe")
    \/ SinkStartStep("fe")
    \/ \E c \in {"rl", "fe"} : SinkStopStep(c)
    \/ InvokeOp("fe", SinkOps)
    \/ SetGui

SpecSink == InitSink /\ [][NextSink]_vars

\* Ownership of the capture object: the front end calls every controller
\* operation, configuration changes included, while the run-loop opens, plays
\* and releases the source.
InitOwn ==
    /\ InitStop
    /\ config.video_file = "clipA"

NextOwn ==
    \/ RunIdleStep
    \/ RunOpenStep
    \/ RunFrameStep
    \/ RunSendStep
    \/ PerfEvent_model("rl")
    \/ PerfFrame_model
    \/ \E c \in {"rl", "fe"} : StateStep(c) \/ SinkStopStep(c)
    \/ PerfEvent_model("fe")
    \/ SinkStartStep("fe")
    \/ ShutdownStep("fe")
    \/ ConfigStep("fe")
    \/ DetectorStep("fe")
    \/ InvokeOp("fe", FrontEndOps)
    \/ InvokeUpdateConfig("fe", ConfigKeys("fe"))
    \/ InvokeChangeDetector

SpecOwn == InitOwn /\ [][NextOwn]_vars

\* Swapping the detector against a start: the front end calls
\* change_detector_model (tk_gui.py 263-264) while the listener calls start
\* (osc_listener.py 32-33) and the run-loop plays the looping file.
NextSwap ==
    \/ RunIdleBare
    \/ RunOpenStep
    \/ RunFrameStep
    \/ RunPerfStep
    \/ \E c \in {"rl", "cl"} : US_assign(c) \/ US_notify(c)
    \/ \E c \in {"rl", "fe"} : PerfEventStep(c)
    \/ Start_guard("cl")
    \/ Start_reset("cl")
    \/ ConfigStep("fe")
    \/ DetectorStep("fe")
    \/ InvokeOp("cl", {"start"})
    \/ InvokeChangeDetector

SpecSwap == InitCtl /\ [][NextSwap]_vars

\* pause(): the front end calls start and stop_video_stream, and pause any
\* number of times in a row, while the run-loop plays the looping file.
NextPause ==
    \/ RunIdleStep
    \/ RunOpenStep
    \/ RunFrameStep
    \/ RunPerfStep
    \/ PerfEventStep("rl")
    \/ \E c \in {"rl", "fe"} : StateStep(c)
    \/ InvokeOp("fe", {"start", "stop_video"})
    \/ InvokePause

SpecPause == InitCtl /\ [][NextPause]_vars

\* start_all(): logging disabled, the default video present or missing; the
\* front end selects a file, calls start, and calls start_all while no sink
\* is running, so that start_all's start_ndi and start_osc both create.
InvokeStartAll ==
    /\ osc_client = None
    /\ ndi_sender = None
    /\ InvokeOp("fe", {"start_all"})

NextStartAll ==
    \/ RunIdleStep
    \/ RunOpenStep
    \/ RunFrameStep
    \/ RunSendStep
    \/ PerfEvent_model("rl")
    \/ SinkStopStep("rl")
    \/ \E c \in {"rl", "fe"} : US_assign(c) \/ US_notify(c)
    \/ Start_guard("fe")
    \/ Start_reset("fe")
    \/ SinkStartStep("fe")
    \/ Osc_notify("fe")
    \/ Ndi_notify("fe")
    \/ ConfigStep("fe")
    \/ InvokeOp("fe", {"start"})
    \/ InvokeStartAll
    \/ InvokeUpdateConfig("fe", {"video_file"})

SpecStartAll == InitStop /\ [][NextStartAll]_vars

\* A start command from the listener: the listener's thread is started before
\* the run-loop's (poseCamPC.py 49-55) and calls start() once, at any time;
\* the run-loop plays the looping file and keeps taking steps.
InvokeListenerStart ==
    /\ cmds = 0
    /\ InvokeOp("cl", {"start"})

NextListenerStart ==
    \/ RunIdleBare
    \/ RunOpenStep
    \/ RunFrameStep
    \/ RunPerfStep
    \/ PerfEventStep("rl")
    \/ \E c \in {"rl", "cl"} : US_assign(c) \/ US_notify(c)
    \/ Start_guard("cl")
    \/ Start_reset("cl")
    \/ InvokeListenerStart

SpecListenerStartFair == InitLoop /\ [][NextListenerStart]_vars /\ WF_vars(RunLoopPerf)

\* Notification of the state: logging disabled, the looping file; commands
\* arrive once the front end is attached, start, pause and stop_video_stream
\* from the front end and start, stop and pause from the listener.
NextNotify ==
    \/ RunIdleStep
    \/ RunOpenStep
    \/ RunFrameStep
    \/ PerfEvent_model("rl")
    \/ \E c \in Ctx : StateStep(c)
    \/ SinkStopStep("cl")
    \/ gui /\ InvokeOp("fe", CfgOps)
    \/ gui /\ InvokeOp("cl", ListenerOps)
    \/ SetGui

SpecNotify == InitOwn /\ [][NextNotify]_vars

\* One batch run (batch_tester.py 169-181): a file of 0..MaxFileLen frames,
\* logging disabled; while the state is INIT or READY the caller sets the
\* loop flag and calls start(), and then only waits.
\* The statements of the run-loop thread when no sink is started.
RunLoopBatch ==
    \/ RunIdleStep
    \/ RunOpenStep
    \/ RunFrameStep
    \/ PerfEvent_model("rl")
    \/ StopVideo("rl")
    \/ US_assign("rl")
    \/ US_notify("rl")

NextBatch ==
    \/ RunLoopBatch
    \/ US_assign("fe")
    \/ US_notify("fe")
    \/ Start_guard("fe")
    \/ Start_reset("fe")
    \/ ConfigStep("fe")
    \/ state \in {"INIT", "READY"} /\ InvokeUpdateConfig("fe", {"loop_video"})
    \/ state \in {"INIT", "READY"} /\ InvokeOp("fe", {"start"})

\* The run-loop is a thread of its own with timed sleeps only, so it keeps
\* taking steps; nothing is assumed about the caller.
SpecBatchFair == InitEos /\ [][NextBatch]_vars /\ WF_vars(RunLoopBatch)

\* ================================================================ claims

\* C1: start() returns at once, leaving the state and the frame counter as
\* they are, if and only if the state it reads is RUNNING; in every other
\* state it sets the frame counter to 0 and then the state to RUNNING.
C1_StartNoOpIffRunning ==
    [][\A c \in CmdCtx :
         /\ (pc[c] = "start" /\ pc'[c] # pc[c]) =>
              /\ (state = "RUNNING") <=> (pc'[c] = Head(stk[c]))
              /\ (state # "RUNNING") <=> (pc'[c] = "start_reset")
              /\ UNCHANGED <<state, frame_count>>
         /\ (pc[c] = "start_reset" /\ pc'[c] # pc[c]) =>
              /\ frame_count' = 0
              /\ pc'[c] = "us_assign"
              /\ arg'[c].ns = "RUNNING"
         /\ (pc[c] = "us_assign" /\ pc'[c] # pc[c]) => state' = arg[c].ns
      ]_vars

\* C1 witness: start() was called in PAUSED after frames had been counted and
\* is about to reset the counter.
C1_Witness ==
    \E c \in CmdCtx : pc[c] = "start_reset" /\ state = "PAUSED" /\ frame_count > 0

\* C2: every change of the state field is one of the listed transitions,
\* INIT->READY, READY->RUNNING, STOPPED->RUNNING, RUNNING->PAUSED,
\* PAUSED->RUNNING, RUNNING->STOPPED, PAUSED->STOPPED, whichever context makes
\* it and whenever its command arrives.
C2_OnlyListedTransitions ==
    [][state' # state =>
         <<state, state'>> \in
            {<<"INIT", "READY">>, <<"READY", "RUNNING">>, <<"STOPPED", "RUNNING">>,
             <<"RUNNING", "PAUSED">>, <<"PAUSED", "RUNNING">>,
             <<"RUNNING", "STOPPED">>, <<"PAUSED", "STOPPED">>}
      ]_vars

\* C3: change_detector_model goes on to change the model if and only if the
\* state it reads at its guard is READY or STOPPED; otherwise its only other
\* step sets the front end's selection, if a front end is attached, back to
\* the configured model and returns.  Neither the guard nor the rejecting step
\* changes the state, the configuration, the detector instance or the
\* performance statistics.
C3_SwapAcceptedIffReadyOrStopped ==
    [][/\ (pc["fe"] = "cdm" /\ pc'["fe"] # "cdm") =>
            /\ (state \in {"READY", "STOPPED"}) <=> (pc'["fe"] = "cdm_same")
            /\ (state \in {"INIT", "RUNNING", "PAUSED"}) <=> (pc'["fe"] = "cdm_revert")
            /\ UNCHANGED <<state, config, pose_detector, model_perf_stats, gui_selected>>
       /\ (pc["fe"] = "cdm_revert" /\ pc'["fe"] # "cdm_revert") =>
            /\ UNCHANGED <<state, config, pose_detector, model_perf_stats>>
            /\ gui => gui_selected' = config.detector_model
            /\ ~gui => gui_selected' = gui_selected
            /\ pc'["fe"] = "idle"
       /\ (pc["fe"] = "cdm_same" /\ pc'["fe"] # "cdm_same") =>
            IF arg["fe"].model = config.detector_model
            THEN pc'["fe"] = "idle" /\ UNCHANGED <<config, pose_detector>>
            ELSE /\ pc'["fe"] = "uc_set"
                 /\ arg'["fe"].key = "detector_model"
                 /\ arg'["fe"].val = arg["fe"].model
       /\ (pc["fe"] = "uc_set" /\ pc'["fe"] # "uc_set") =>
            config' = [config EXCEPT ![arg["fe"].key] = arg["fe"].val]
      ]_vars

\* C3 witness: a change to the other model was requested through the attached
\* front end while PAUSED, was rejected, and the selection is about to be
\* reverted.
C3_Witness ==
    /\ pc["fe"] = "cdm_revert"
    /\ state = "PAUSED"
    /\ gui
    /\ gui_selected # config.detector_model
    /\ arg["fe"].model # config.detector_model

\* C4 (as claimed): a capture object exists only while the state is RUNNING or
\* PAUSED.
C4_CaptureOnlyWhileActive ==
    video_capture.exists => state \in {"RUNNING", "PAUSED"}

\* C4 (amended): a capture object exists only while the state is RUNNING,
\* PAUSED or STOPPED, never in INIT or READY; and when the run-loop has gone
\* through the release branch of an idle iteration and sleeps, none exists.
C4_CaptureReleasedWhenIdle ==
    /\ video_capture.exists => state \in {"RUNNING", "PAUSED", "STOPPED"}
    /\ pc["rl"] = "idle_sleep" => ~video_capture.exists

\* C4 witness: a run that counted frames was stopped and the idle iteration
\* has released its capture object.
C4_Witness ==
    /\ pc["rl"] = "idle_sleep"
    /\ state = "STOPPED"
    /\ frame_count > 0
    /\ ~video_capture.exists

\* C5: the run-loop never obtains a frame from a capture object that was held
\* across a stop and the start() that followed it: the old object is released
\* and a new one opened before the first frame of the new run.
C5_FreshCapturePerRun ==
    [][(pc["rl"] = "capture" /\ pc'["rl"] = "count_read") => ~cap_stale]_vars

\* C6: the preview relay never holds more than 2 frames; a push into a relay
\* that holds 2 frames leaves it as it is, any other push appends the frame at
\* the end; the consumer takes the frame at the front; nothing else changes
\* the relay.
C6_RelayBoundedFifoDropIncoming ==
    [][/\ Len(preview_frame_queue) <= 2
       /\ Len(preview_frame_queue') <= 2
       /\ (pc["rl"] = "preview_put" /\ pc'["rl"] # "preview_put") =>
            IF Len(preview_frame_queue) = 2
            THEN preview_frame_queue' = preview_frame_queue
            ELSE preview_frame_queue' =
                   Append(preview_frame_queue, [n |-> rl.frame.n, ov |-> rl.pov])
       /\ (pc'["rl"] = pc["rl"] /\ preview_frame_queue' # preview_frame_queue) =>
            /\ preview_frame_queue # << >>
            /\ preview_frame_queue' = Tail(preview_frame_queue)
            /\ gui_preview' = Head(preview_frame_queue)
       /\ (pc'["rl"] # pc["rl"] /\ pc["rl"] # "preview_put") =>
            preview_frame_queue' = preview_frame_queue
      ]_vars

\* C6 witness: frames 1, 2 and 3 were pushed without a consumer and the relay
\* holds frames 1 and 2.
C6_Witness ==
    /\ pc["rl"] = "ndi_check"
    /\ rl.frame.n = 3
    /\ ~gui
    /\ Len(preview_frame_queue) = 2
    /\ preview_frame_queue[1].n = 1
    /\ preview_frame_queue[2].n = 2

\* C7: whatever the consumer does, a run-loop that is about to push frame n
\* into a full relay finishes the iteration, and if the video sender exists
\* the frame is handed to it; while the state stays RUNNING the frame counter
\* goes on increasing although the relay is full.
C7_RunLoopNeverWaitsOnPreview ==
    /\ (pc["rl"] = "preview_put" /\ Len(preview_frame_queue) = PreviewMaxSize)
         ~> (pc["rl"] = "loop")
    /\ \A n \in 1..MaxFrames :
         (pc["rl"] = "preview_put" /\ rl.frame.n = n /\ ndi_sender = "live"
            /\ Len(preview_frame_queue) = PreviewMaxSize)
         ~> (ndi_sent = n)
    /\ \A k \in 0..(MaxFrames - 1) :
         (state = "RUNNING" /\ frame_count = k
            /\ Len(preview_frame_queue) = PreviewMaxSize)
         ~> (frame_count > k \/ state # "RUNNING")

\* C7 witness: frame 3 was dropped by the full relay, no consumer is attached,
\* and the frame has been handed to the video sender.
C7_Witness ==
    /\ ~gui
    /\ Len(preview_frame_queue) = PreviewMaxSize
    /\ preview_frame_queue[2].n = 2
    /\ frame_count = 3
    /\ ndi_sent = 3

\* C8: with logging enabled and no configuration change, the stored statistics
\* of every model are the number and the sum of the frame times recorded since
\* the model's last performance event; each frame row reports that sum over
\* that number, which is at least 1, and the first frame row after an event
\* reports the frame's own time over 1.
C8_RunningAverageSinceEvent ==
    /\ [](\A m \in Models :
            model_perf_stats[m].present =>
               /\ model_perf_stats[m].frame_count = since[m].frame_count
               /\ model_perf_stats[m].total_time = since[m].total_time)
    /\ [][(pc["rl"] = "pf_write" /\ pc'["rl"] # "pf_write") =>
            /\ last_row'.kind = "frame"
            /\ last_row'.avg_count = since[rl.model].frame_count + 1
            /\ last_row'.avg_total = since[rl.model].total_time + rl.t
            /\ last_row'.avg_count > 0
            /\ since[rl.model].frame_count = 0 =>
                 (last_row'.avg_count = 1 /\ last_row'.avg_total = last_row'.time)
            /\ model_perf_stats'[rl.model].frame_count = last_row'.avg_count
            /\ model_perf_stats'[rl.model].total_time = last_row'.avg_total
         ]_vars

\* C8 witness: the third frame row since the event reports the three times
\* 1, 2 and 2 as 5 over 3.
C8_Witness ==
    /\ last_row.kind = "frame"
    /\ last_row.avg_count = 3
    /\ last_row.avg_total = 5
    /\ model_perf_stats[DefaultModel].frame_count = 3
    /\ model_perf_stats[DefaultModel].total_time = 5

\* C9: a frame row written when no event row is pending reports the running
\* average of exactly the frames recorded since the model's last performance
\* event, also when the overlay flag is set from the front end meanwhile.
C9_NoBlendAcrossOverlayToggle ==
    [][(/\ pc["rl"] = "pf_write"
        /\ pc'["rl"] # "pf_write"
        /\ \A c \in Ctx : pc[c] # "pe_row") =>
            /\ last_row'.avg_count = since'[rl.model].frame_count
            /\ last_row'.avg_total = since'[rl.model].total_time
      ]_vars

\* C10: with a looping file of L >= 1 frames and no command after start(), as
\* long as the run-loop holds the capture object the state is RUNNING, and at
\* every loop head the frame counter equals the number k of frames read from
\* the file, which has been rewound at least floor((k-1)/L) times; the
\* run-loop never takes the end-of-stream branch that calls
\* stop_video_stream().
C10_LoopingFileKeepsRunning ==
    video_capture.exists =>
       /\ state = "RUNNING"
       /\ pc["rl"] # "stop_video"
       /\ pc["rl"] = "loop" =>
            /\ frame_count = video_capture.rewinds * file_len + video_capture.pos
            /\ video_capture.rewinds >= (frame_count - 1) \div file_len

\* C10 witness: a file of one frame, three frames processed, two rewinds.
C10_Witness ==
    /\ pc["rl"] = "loop"
    /\ file_len = 1
    /\ frame_count = 3
    /\ video_capture.exists
    /\ video_capture.rewinds = 2
    /\ state = "RUNNING"

\* C11: when a stop() called by the front end returns, no other context
\* issuing commands, the state is STOPPED, the message sink is inactive
\* without a client and the video sink is inactive without a sender.
C11_StopLeavesAllStopped ==
    [][(pc["fe"] = "sn_notify" /\ pc'["fe"] = "idle") =>
          /\ state' = "STOPPED"
          /\ osc_client' = None
          /\ ~osc_active'
          /\ ndi_sender' = None
          /\ ~ndi_active'
      ]_vars

\* C12: a run-loop that obtains no frame - it always obtains none from an
\* empty file and from a file at its end when looping is off or the input kind
\* is not "file" - calls stop_video_stream() and then continues at the loop
\* head: the frame counter and both sinks stay as they are, and the state is
\* set to STOPPED unless it is STOPPED (or READY) already.
C12_NoFrameStopsVideoOnly ==
    [][/\ (pc["rl"] = "capture" /\ pc'["rl"] # "capture") =>
            /\ (/\ video_capture.kind = "file"
                /\ \/ file_len = 0
                   \/ /\ video_capture.pos = file_len
                      /\ ~(config.loop_video /\ config.input = "file"))
                 => pc'["rl"] = "stop_video"
            /\ pc'["rl"] = "stop_video" =>
                 /\ stk'["rl"] = <<"loop">>
                 /\ UNCHANGED <<state, frame_count, oscVars, ndiVars>>
       /\ (pc["rl"] = "stop_video" /\ pc'["rl"] # "stop_video") =>
            /\ UNCHANGED <<state, frame_count, oscVars, ndiVars>>
            /\ IF state \in {"RUNNING", "PAUSED", "INIT"}
               THEN pc'["rl"] = "us_assign" /\ arg'["rl"].ns = "STOPPED"
               ELSE pc'["rl"] = "loop"
       /\ (pc["rl"] = "us_assign" /\ arg["rl"].ns = "STOPPED"
             /\ pc'["rl"] # "us_assign") =>
            /\ state' = "STOPPED"
            /\ pc'["rl"] = "us_notify"
            /\ UNCHANGED <<frame_count, oscVars, ndiVars, stk>>
       /\ (pc["rl"] = "us_notify" /\ arg["rl"].ns = "STOPPED"
             /\ pc'["rl"] # "us_notify") =>
            /\ pc'["rl"] = "loop"
            /\ UNCHANGED <<state, frame_count, oscVars, ndiVars>>
      ]_vars

\* C12 witness: with both sinks active a one-frame file reached its end with
\* looping off; one frame was counted and the run-loop has set STOPPED.
C12_Witness ==
    /\ pc["rl"] = "us_notify"
    /\ arg["rl"].ns = "STOPPED"
    /\ state = "STOPPED"
    /\ frame_count = 1
    /\ video_capture.pos = 1
    /\ osc_active
    /\ ndi_active
    /\ ndi_sender = "live"

\* C13: when the source cannot be opened (no capture object, or one that is
\* not opened) the run-loop calls stop(): it sets the state to STOPPED and
\* comes back to the loop head without capturing or counting a frame; it
\* never exits; after the release branch of an idle iteration no capture
\* object exists; and a loop head that finds RUNNING without a capture object
\* makes a new open attempt.
C13_OpenFailureStopsAndRetriesOnStart ==
    /\ [](pc["rl"] # "exited")
    /\ [](pc["rl"] = "idle_sleep" => ~video_capture.exists)
    /\ [][/\ (pc["rl"] = "open_check" /\ pc'["rl"] # "open_check") =>
               IF ~video_capture.exists \/ ~video_capture.opened
               THEN /\ pc'["rl"] = "us_assign"
                    /\ arg'["rl"].ns = "STOPPED"
                    /\ stk'["rl"] = <<"so_client", "sn_destroy", "loop">>
                    /\ UNCHANGED <<state, frame_count, video_capture>>
               ELSE pc'["rl"] = "pe_model"
          /\ (pc["rl"] = "us_assign" /\ pc'["rl"] # "us_assign") =>
               /\ state' = arg["rl"].ns
               /\ pc'["rl"] = "us_notify"
          /\ (pc["rl"] \in {"us_assign", "us_notify", "so_client", "so_active",
                            "so_notify", "sn_destroy", "sn_clear", "sn_active",
                            "sn_notify"}
                /\ pc'["rl"] # pc["rl"]) =>
               /\ UNCHANGED <<frame_count, video_capture>>
               /\ pc'["rl"] \in {"us_notify", "so_client", "so_active", "so_notify",
                                 "sn_destroy", "sn_clear", "sn_active", "sn_notify",
                                 "loop"}
          /\ (pc["rl"] = "loop" /\ pc'["rl"] # "loop"
                /\ state = "RUNNING" /\ ~video_capture.exists) =>
               pc'["rl"] = "open_input"
       ]_vars

\* C13 witness: the selected file could not be opened, the run-loop has set
\* STOPPED and its idle iteration is about to release the unopened object.
C13_Witness ==
    /\ pc["rl"] = "idle_release"
    /\ state = "STOPPED"
    /\ video_capture.exists
    /\ ~video_capture.opened
    /\ frame_count = 0

\* C14: once shutdown() has returned and the run-loop has exited, no capture
\* object exists and both sinks are inactive.
C14_ExitedMeansReleased ==
    (pc["rl"] = "exited" /\ pc["fe"] = "closed") =>
       /\ ~video_capture.exists
       /\ ~osc_active
       /\ ~ndi_active

\* C15: start_osc on an existing client and start_ndi on an existing sender
\* return at once and leave handle and activation flag as they are; stop_osc
\* and stop_ndi on a sink without handle and activation leave both as they are
\* and destroy nothing; no statement of the four operations changes the state,
\* the capture object, the recorded resolution or the frame counter.
C15_SinkOpsIdempotent ==
    [][\A c \in CmdCtx :
         (pc[c] \in SinkLabels /\ pc'[c] # pc[c]) =>
            /\ UNCHANGED <<state, video_capture, video_width, video_height, frame_count>>
            /\ (pc[c] = "sto_check" /\ osc_client # None) =>
                 (pc'[c] = Head(stk[c]) /\ UNCHANGED <<osc_client, osc_active>>)
            /\ (pc[c] = "stn_check" /\ ndi_sender # None) =>
                 (pc'[c] = Head(stk[c])
                    /\ UNCHANGED <<ndi_sender, ndi_active, ndi_initialized>>)
            /\ (pc[c] \in {"so_client", "so_active", "so_notify"}
                  /\ osc_client = None /\ ~osc_active) =>
                 UNCHANGED <<osc_client, osc_active>>
            /\ (pc[c] \in {"sn_destroy", "sn_clear", "sn_active", "sn_notify"}
                  /\ ndi_sender = None /\ ~ndi_active) =>
                 (UNCHANGED <<ndi_sender, ndi_active, ndi_initialized>>
                    /\ pc'[c] # "sn_clear")
      ]_vars

\* C15 witness: start_ndi was called while RUNNING with a sender and has
\* returned at once, frames counted and the sender still live and active.
C15_Witness ==
    /\ pc["fe"] = "idle"
    /\ cmds = 3
    /\ state = "RUNNING"
    /\ frame_count > 0
    /\ ndi_sender = "live"
    /\ ndi_active
    /\ osc_client = None
    /\ ~osc_active

\* C16: with a front end attached, the last statement a sink operation
\* executes before it returns is the report of the activation flag to the
\* front end.
C16_SinkOpsAlwaysReport ==
    [][\A c \in CmdCtx :
         (gui /\ pc[c] \in SinkLabels /\ pc'[c] \notin SinkLabels) =>
            pc[c] \in {"so_notify", "sn_notify"}
      ]_vars

\* C17: the state field changes only by the assignment of update_state; the
\* notification follows that assignment in the same call, carries the value
\* that call assigned, reaches an attached front end, and is the last statement
\* before the mutator returns; the front end's state display changes in no
\* other way.
C17_AssignThenNotifySameValue ==
    [][/\ state' # state =>
            \E c \in Ctx : /\ pc[c] = "us_assign"
                           /\ pc'[c] = "us_notify"
                           /\ state' = arg[c].ns
       /\ \A c \in Ctx :
            /\ (pc'[c] = "us_notify" /\ pc[c] # "us_notify") =>
                 (pc[c] = "us_assign" /\ state' = arg'[c].ns)
            /\ (pc[c] = "us_notify" /\ pc'[c] = "us_notify") =>
                 arg'[c].ns = arg[c].ns
            /\ (pc[c] = "us_notify" /\ pc'[c] # "us_notify") =>
                 /\ pc'[c] = Head(stk[c])
                 /\ gui => gui_state' = arg[c].ns
       /\ gui_state' # gui_state =>
            \E c \in Ctx : pc[c] = "us_notify" /\ gui /\ gui_state' = arg[c].ns
      ]_vars

\* C17 witness: the front end's start has been assigned and reported; the
\* run-loop, whose open failed, has assigned STOPPED and is about to report it
\* while the display still shows RUNNING.
C17_Witness ==
    /\ gui
    /\ gui_state = "RUNNING"
    /\ state = "STOPPED"
    /\ pc["rl"] = "us_notify"
    /\ arg["rl"].ns = "STOPPED"
    /\ pc["fe"] = "idle"

\* C18: no statement of a controller operation executed by the front end or
\* the command listener changes the capture object or the recorded width and
\* height; they change only in steps of the run-loop.
C18_CaptureOwnedByRunLoop ==
    [][/\ (\E c \in CmdCtx : pc'[c] # pc[c]) =>
            UNCHANGED <<video_capture, video_width, video_height>>
       /\ <<video_capture, video_width, video_height>>'
             # <<video_capture, video_width, video_height>> =>
            (pc'["rl"] # pc["rl"] /\ \A c \in CmdCtx : pc'[c] = pc[c])
      ]_vars

\* C18 witness: the front end has issued three operations, the last one a
\* start that has returned, while the run-loop holds an open capture object
\* with its resolution recorded and has read a frame from it.
C18_Witness ==
    /\ cmds = 3
    /\ pc["fe"] = "idle"
    /\ state = "RUNNING"
    /\ video_capture.exists
    /\ video_capture.pos > 0
    /\ video_width > 0

\* C19: the frame counter never decreases and changes only in steps of the
\* run-loop, never in a statement executed by the front end or the command
\* listener.
C19_FrameCountOwnedMonotonic ==
    [][/\ frame_count' >= frame_count
       /\ frame_count' # frame_count =>
            (pc'["rl"] # pc["rl"] /\ \A c \in CmdCtx : pc'[c] = pc[c])
      ]_vars

\* C20: the input kind the run-loop opens and the file path or camera id it
\* opens it with are together the source setting the configuration held at
\* one instant between the read of the input kind and the read of the path or
\* id.
C20_SourceReadAtOneInstant ==
    [][(pc["rl"] = "open_device" /\ pc'["rl"] # "open_device") =>
          \E t \in cfg_seen :
             /\ t.input = rl.source
             /\ (rl.source = "webcam" => t.camera_id = config.camera_id)
             /\ (rl.source # "webcam" => t.video_file = config.video_file)
      ]_vars

\* C21: whenever change_detector_model writes detector_model into the
\* configuration or replaces the detector instance, the state is READY or
\* STOPPED.
C21_SwapOnlyWhileReadyOrStopped ==
    [][\A c \in CmdCtx :
         (\/ (pc[c] = "uc_set" /\ arg[c].key = "detector_model" /\ pc'[c] # "uc_set")
          \/ (pc[c] = "init_detector" /\ pc'[c] # "init_detector"))
         => state \in {"READY", "STOPPED"}
      ]_vars

\* C22: once an accepted swap has failed, leaving a detector instance that is
\* not the configured model, the run-loop processes no frame.
C22_NoFrameAfterFailedSwap ==
    (pc["fe"] = "idle" /\ pose_detector # config.detector_model) =>
       pc["rl"] \notin {"process", "overlay"}

\* C23: with logging disabled no row is ever written and no statistics are
\* kept; and the statements of _log_perf_event and _log_perf_frame, which are
\* all that logging adds, change nothing but the statistics and the log and
\* continue where the disabled call returns to: the state, the configuration,
\* the detector, the capture object, the frame counter, the relay, the sinks
\* and the front end are the same with and without logging.
C23_LoggingDisabledSameBehaviour ==
    /\ [](~perf_log_file =>
            /\ last_row = NoRow
            /\ model_perf_stats = [m \in Models |-> NoStats])
    /\ [][\A c \in Ctx :
            (pc[c] \in {"pe_model", "pe_reset", "pe_row", "pf_model", "pf_ref", "pf_write"}
               /\ pc'[c] # pc[c]) =>
               /\ UNCHANGED <<state, config, pose_detector, capVars, oscVars, ndiVars,
                              frame_count, preview_frame_queue, thread_should_stop,
                              guiVars>>
               /\ pc[c] = "pe_model" =>
                    IF perf_log_file THEN pc'[c] = "pe_reset" /\ stk'[c] = stk[c]
                    ELSE pc'[c] = Head(stk[c]) /\ stk'[c] = Tail(stk[c])
               /\ pc[c] = "pe_reset" => (pc'[c] = "pe_row" /\ stk'[c] = stk[c])
               /\ pc[c] = "pe_row" => (pc'[c] = Head(stk[c]) /\ stk'[c] = Tail(stk[c]))
               /\ pc[c] = "pf_model" =>
                    pc'[c] = IF perf_log_file THEN "pf_ref" ELSE "osc_check"
               /\ pc[c] = "pf_ref" => pc'[c] = "pf_write"
               /\ pc[c] = "pf_write" => pc'[c] = "osc_check"
         ]_vars

\* C23 witness: logging is disabled, the detector was changed and two frames
\* were processed, the second having just passed _log_perf_frame; no row
\* exists.
C23_Witness ==
    /\ ~perf_log_file
    /\ state = "RUNNING"
    /\ frame_count = 2
    /\ pc["rl"] = "osc_check"
    /\ config.detector_model # DefaultModel
    /\ last_row = NoRow

\* C24: with logging enabled, every call of _log_perf_event (after a
\* successful open, after update_config of the overlay flag, after an accepted
\* detector swap) appends an event row for the configured model, in each of
\* the states READY, STOPPED, RUNNING and PAUSED.
C24_EveryEventWritesRow ==
    [][\A c \in Ctx :
         (pc[c] = "pe_row" /\ pc'[c] # "pe_row"
            /\ state \in {"READY", "STOPPED", "RUNNING", "PAUSED"}) =>
            last_row' = [kind |-> "event", model |-> arg[c].pm,
                         overlay |-> config.draw_ndi_overlay]
      ]_vars

\* C25: the statistics entry a frame's time is added to, and the model its
\* frame row names, is the model of the detector instance that processed the
\* frame.
C25_FrameCountedForItsDetector ==
    [][(pc["rl"] = "pf_write" /\ pc'["rl"] # "pf_write") =>
          /\ rl.model = rl.det
          /\ last_row'.model = rl.det
          /\ \A m \in Models \ {rl.det} : model_perf_stats'[m] = model_perf_stats[m]
      ]_vars

\* C26: a send to the message sink or to the video sink, failed or not, and
\* the handler of a failed send leave the state, the capture object, the
\* resolution, the frame counter, the relay and both sinks' handles and
\* activation flags unchanged; after a failed message send the iteration goes
\* on with the preview and the video send, and after a failed video send the
\* run-loop is at the head of the next iteration.
C26_SendFailureIsCaught ==
    [][(pc["rl"] \in {"osc_send", "osc_except", "ndi_send", "ndi_except"}
          /\ pc'["rl"] # pc["rl"]) =>
          /\ UNCHANGED <<state, capVars, frame_count, preview_frame_queue, osc_client,
                         osc_active, ndi_sender, ndi_active>>
          /\ pc["rl"] = "osc_send" => pc'["rl"] \in {"preview_overlay", "osc_except"}
          /\ pc["rl"] = "osc_except" => pc'["rl"] = "preview_overlay"
          /\ pc["rl"] = "ndi_send" => pc'["rl"] \in {"loop", "ndi_except"}
          /\ pc["rl"] = "ndi_except" => pc'["rl"] = "loop"
      ]_vars

\* C26 witness: while RUNNING with both sinks active, the send of the second
\* frame to the live video sender has failed and its handler is running.
C26_Witness ==
    /\ pc["rl"] = "ndi_except"
    /\ state = "RUNNING"
    /\ frame_count = 2
    /\ ndi_sender = "live"
    /\ ndi_active
    /\ osc_active
    /\ osc_sent = 2

\* C27: a failed creation of the message client or of the video sender, in
\* any state the run-loop has set up, leaves the sink without handle and
\* inactive and the state STOPPED, and the operation goes on to its report.
C27_FailedSinkCreationLeavesStopped ==
    [][\A c \in CmdCtx :
         /\ (pc[c] = "sto_create" /\ pc'[c] = "so_notify" /\ state # "INIT") =>
              (osc_client' = None /\ ~osc_active' /\ state' = "STOPPED")
         /\ (pc[c] = "stn_create" /\ pc'[c] = "sn_notify" /\ state # "INIT") =>
              (ndi_sender' = None /\ ~ndi_active' /\ state' = "STOPPED")
      ]_vars

\* C28: the copy the run-loop pushes to the preview relay carries the overlay
\* exactly once, and the frame itself carries it at most once.
C28_PreviewOverlayExactlyOnce ==
    [][(pc["rl"] = "preview_put" /\ pc'["rl"] # "preview_put") =>
          /\ rl.pov = 1
          /\ rl.frame.ov \in {0, 1}
      ]_vars

\* C29: the first frame the run-loop numbers after a start() has set RUNNING
\* gets the number 1.
C29_FirstFrameAfterStartIsOne ==
    [][(pc["rl"] = "count_write" /\ pc'["rl"] # "count_write" /\ "due" \in fresh_start) =>
          frame_count' = 1
      ]_vars

\* C30: an iteration of the run-loop that finds the state PAUSED at line 502
\* only sleeps and returns to the loop head: from its test for RUNNING to its
\* end it leaves the capture object, the resolution, the frame counter, the
\* statistics and the log, the relay and both sinks unchanged.
C30_PausedIterationTouchesNothing ==
    [][/\ (pc["rl"] = "check_paused" /\ state = "PAUSED" /\ pc'["rl"] # "check_paused") =>
            /\ pc'["rl"] = "loop"
            /\ UNCHANGED <<capVars, frame_count, model_perf_stats, last_row,
                           preview_frame_queue, oscVars, ndiVars>>
       /\ (pc["rl"] = "loop" /\ pc'["rl"] = "check_paused") =>
            UNCHANGED <<capVars, frame_count, model_perf_stats, last_row,
                        preview_frame_queue, oscVars, ndiVars>>
      ]_vars

\* C30 witness: paused after two frames, with the capture object open and a
\* frame row written, the run-loop is at the test of line 502.
C30_Witness ==
    /\ pc["rl"] = "check_paused"
    /\ state = "PAUSED"
    /\ video_capture.exists
    /\ video_width > 0
    /\ frame_count = 2
    /\ last_row.kind = "frame"

\* C31: a pause() that found RUNNING leaves PAUSED, one that found PAUSED
\* leaves RUNNING, one that found INIT, READY or STOPPED leaves that state;
\* after two pause() calls in a row the state is the one the first found; and
\* no statement of pause() changes the frame counter, the configuration or
\* the sinks.
C31_PauseToggles ==
    /\ [](pc["fe"] = "idle" /\ pause_from # << >> =>
            LET n == Len(pause_from)
                found == pause_from[n]
            IN /\ found = "RUNNING" => state = "PAUSED"
               /\ found = "PAUSED" => state = "RUNNING"
               /\ found \in {"INIT", "READY", "STOPPED"} => state = found
               /\ n >= 2 => state = pause_from[n - 1])
    /\ [][\A c \in CmdCtx :
            (/\ pc'[c] # pc[c]
             /\ \/ pc[c] \in {"pause", "pause_elif"}
                \/ c = "fe" /\ pause_from # << >> /\ pc[c] \in {"us_assign", "us_notify"})
            => UNCHANGED <<frame_count, config, oscVars, ndiVars>>
         ]_vars

\* C31 witness: the front end has called pause() three times in a row, the
\* first in RUNNING, and the third has returned; frames have been counted.
C31_Witness ==
    /\ pc["fe"] = "idle"
    /\ pause_from = <<"RUNNING", "PAUSED", "RUNNING">>
    /\ state = "PAUSED"
    /\ frame_count > 0

\* C32: no statement executed by the run-loop thread changes the handle or
\* the activation of the message sink or of the video sink.
C32_RunLoopLeavesSinksAlone ==
    [][pc'["rl"] # pc["rl"] =>
          UNCHANGED <<osc_client, osc_active, ndi_sender, ndi_active>>
      ]_vars

\* C33 (as stated): whenever the recorded width is not 0 a capture object
\* exists.
C33_ResolutionImpliesCapture ==
    video_width # 0 => video_capture.exists

\* C33: a recorded resolution other than 0 means that a capture object exists
\* or that the run-loop has just set self.video_capture = None and is about to
\* reset the resolution; and if from some time on the state stays READY or
\* STOPPED with no shutdown signalled (and the run-loop is not held at the
\* frame bound), then from some time on no capture object exists and the
\* recorded width and height are 0.
C33_ResolutionResetAfterRelease ==
    /\ [](video_width # 0 \/ video_height # 0 =>
            video_capture.exists \/ pc["rl"] = "idle_reset")
    /\ (<>[](/\ state \in {"READY", "STOPPED"}
             /\ ~thread_should_stop
             /\ ~(pc["rl"] = "capture" /\ frame_count >= frame_cap))
        => <>[](~video_capture.exists /\ video_width = 0 /\ video_height = 0))

\* C33 witness: after a run that processed a frame the state is STOPPED and
\* the run-loop has released the capture object and reset the resolution.
C33_Witness ==
    /\ pc["rl"] = "idle_sleep"
    /\ state = "STOPPED"
    /\ last_row.kind = "frame"
    /\ frame_count > 0
    /\ ~video_capture.exists
    /\ video_width = 0
    /\ video_height = 0

\* C34: when start_all()'s start() has set RUNNING with both sinks running,
\* then as long as the state stays RUNNING or PAUSED every frame the run-loop
\* takes to the sinks finds the message sink active with its client and the
\* video sink with a live sender, and is handed to both.
C34_StartAllFramesReachBothSinks ==
    [][(run_sinks /\ pc'["rl"] # pc["rl"]) =>
          /\ pc["rl"] = "osc_check" => pc'["rl"] = "osc_call"
          /\ pc["rl"] = "osc_call" => pc'["rl"] = "osc_send"
          /\ pc["rl"] = "ndi_check" => pc'["rl"] = "ndi_send"
          /\ pc["rl"] = "ndi_send" => ndi_sender = "live"
      ]_vars

\* C35: once a start() has set RUNNING, and nothing but the run-loop acts
\* afterwards, the run-loop eventually numbers a frame of the opened source.
C35_StartNeverLost ==
    ("due" \in fresh_start) ~> ("due" \notin fresh_start)

\* C36: with a front end attached that has been notified of a state, whenever
\* no context is inside a controller operation that changes the state, the
\* state last shown by update_ui_state is the controller's state.
C36_FrontEndShowsCurrentState ==
    (/\ gui
     /\ gui_state # None
     /\ pc["fe"] = "idle"
     /\ pc["cl"] = "idle"
     /\ pc["rl"] \notin {"us_assign", "us_notify", "stop_video"} \cup SinkLabels)
    => gui_state = state

\* C37: when the front end is in no controller operation (every stop_osc()
\* and stop_ndi() it called has returned), the run-loop sends a bundle only
\* through a client the controller still holds and hands a frame only to a
\* sender that has not been destroyed.
C37_NoSendAfterSinkStopped ==
    [][(pc'["rl"] # pc["rl"] /\ pc["fe"] = "idle") =>
          /\ pc["rl"] = "osc_send" => osc_client = rl.client
          /\ pc["rl"] = "ndi_send" => ndi_sender # "destroyed"
      ]_vars

\* C38: whenever the front end is not inside change_detector_model, the
\* configured detector_model is the model the active detector instance was
\* built from.
C38_ConfigNamesActiveDetector ==
    pc["fe"] = "idle" => config.detector_model = pose_detector

\* C39: with looping disabled, once the run-loop has opened the file, the
\* state eventually is STOPPED with the frame counter at the number of frames
\* of the file, the run-loop having made that transition itself; the counter
\* never exceeds that number during the run.
C39_BatchRunEndsAfterAllFrames ==
    /\ [](video_capture.exists /\ video_capture.opened /\ ~config.loop_video =>
            frame_count <= file_len)
    /\ [][(state = "RUNNING" /\ state' = "STOPPED") =>
             (pc["rl"] = "us_assign" /\ video_capture.exists /\ frame_count = file_len)
         ]_vars
    /\ (video_capture.exists /\ video_capture.opened /\ ~config.loop_video)
         ~> (state = "STOPPED" /\ frame_count = file_len)

\* C39 witness: the run over the two-frame file, looping disabled, has ended:
\* STOPPED with the counter at 2, the capture object released.
C39_Witness ==
    /\ ~config.loop_video
    /\ file_len = 2
    /\ state = "STOPPED"
    /\ frame_count = 2
    /\ pc["rl"] = "idle_sleep"
    /\ ~video_capture.exists

====
